---- MODULE Spec2Model ----
(***************************************************************************)
(* State-machine model of the secure-core backend: room lifecycle, the     *)
(* message relay, room files, one-time file drops and the periodic         *)
(* clean-up sweeps, over a Redis-like Metadata Store with per-key expiry   *)
(* and an S3-like Object Store.                                            *)
(*                                                                         *)
(* Time is counted in ticks; TicksPerSec ticks make one second, so that    *)
(* the second-granular TTL arithmetic of the code (Math.ceil, the rounding *)
(* of the TTL query) is visible.  A handler is cut into steps at its       *)
(* awaits; a step is the store's execution of the awaited command together *)
(* with the synchronous code that runs when the await resumes.             *)
(* The deployment modelled has the Object Store configured (the 503        *)
(* branches are not taken).                                                *)
(***************************************************************************)
EXTENDS Integers, Sequences, FiniteSets, TLC

\* ---------------------------------------------------------------- bounds
MaxTime     == 6    \* the clock stops after this many ticks
TicksPerSec == 2    \* resolution of the clock
MaxFileId   == 2    \* file ids (randomUUID) handed out per run
NSlots      == 2    \* HTTP requests that can be in flight together
NWsSlots    == 2    \* message handlers that can be in flight together
NConns      == 2    \* WebSocket connections
MaxMsgs     == 3    \* chat messages accepted

Conns      == 1..NConns
WsSlots    == 1..NWsSlots
IdleWs     == [pc |-> "idle"]
NoCase == [h |-> 0]
NoSent == [c \in Conns |-> <<>>]
DropHashes == {1}               \* drop hashes presented by clients
Slots      == 1..NSlots
\* a duration is a string of characters: a digit is its value 0..9, any
\* other character its code point (109: m, 104: h, 120: x)
D10m == <<1, 0, 109>>
D20m == <<2, 0, 109>>
D1h  == <<1, 104>>
D24h == <<2, 4, 104>>
Durations  == {D10m, D20m}   \* durations offered to createFileDrop
\* "0m", "2880m", "2881m", "m", "20" and "20xm"
CreateDurations ==
  {D10m, D20m, D1h, D24h, <<0, 109>>, <<2, 8, 8, 0, 109>>, <<2, 8, 8, 1, 109>>,
   <<109>>, <<2, 0>>, <<2, 0, 120, 109>>}
\* file-drop lifetimes are scaled: one model second is ten minutes
SecPerUnit == 10 * 60
NoExpire   == -1               \* store expiry of a key without TTL
NoFile     == 0                \* JS null in a file field
NoKey      == <<"none", 0, 0>>  \* JS null in an object-key field
\* the multipart parts of an upload: file is the buffer of req.file, the
\* text fields fileName and fileSize are strings of code points (a digit
\* of fileSize is its value 0..9), an absent field and an empty one are
\* both <<>>; iv and authTag are the number of bytes they decode to
PlainFile ==
  [file |-> <<7, 7, 7>>, fileName |-> <<97>>, fileSize |-> <<3>>,
   iv |-> 12, authTag |-> 16]
FileInputs == {PlainFile}
\* "a", "a b", no name, and a name with a character above U+00FF
FileNames == {<<97>>, <<97, 32, 98>>, <<>>, <<97, 8364>>}
\* "3", "5", "0", "03", and no size
FileSizes == {<<3>>, <<5>>, <<0>>, <<0, 3>>, <<>>}
NamedFileInputs ==
  {[PlainFile EXCEPT !.fileName = n, !.fileSize = s] :
     n \in FileNames, s \in FileSizes}

VARIABLES
  now,         \* the clock (Date.now / DateTime.now), in ticks
  drops,       \* Metadata Store, keys drop:{dropHash}: [val, exp]
  objects,     \* Object Store: set of object keys
  pc,          \* per HTTP slot: position of the handler
  rq,          \* per HTTP slot: the handler's locals
  lastRes,     \* the response or stream event the last step emitted
  nextFileId,  \* source of fresh file ids
  sw,          \* the clean-up sweep in progress
  rooms,       \* Metadata Store, keys room:{roomHash}: [val, exp]
  members,     \* Metadata Store, keys room:{roomHash}:members: [val (set), exp]
  messages,    \* Metadata Store, keys room:{roomHash}:messages: [val (list), exp]
  files,       \* Metadata Store, keys file:{roomHash}:{fileId}: [val, exp]
  roomClients, \* Connection Registry: roomHash -> set of connections
  readyState,  \* per connection: "none" before it is made, "open", "closed"
  sent,        \* per connection: the frames the last step sent to it
  roomCache,   \* Room Cache: roomHash -> [roomData, expiresAt]
  ws,          \* per message-handler slot: connection, position, locals
  bg,          \* fire-and-forget tasks in progress
  nextMsgId,   \* source of fresh message ids
  capCase,     \* history: the chat message that met a full room, if the last did
  deployed,    \* which variant of each controller is deployed (fixed)
  delivered,     \* history: drops whose current session was streamed to the end
  everDelivered  \* history: drops some session of which was streamed to the end

relaySide == <<roomClients, readyState, roomCache, ws, bg, nextMsgId, capCase>>
roomSide == <<rooms, members, messages, files, relaySide>>
dropSide == <<drops, delivered, everDelivered>>
vars == <<now, drops, objects, pc, rq, lastRes, nextFileId, sw, deployed,
          delivered, everDelivered, rooms, members, messages, files,
          relaySide, sent>>

\* ----------------------------------------------------- store primitives
EmptyStore == [k \in {} |-> 0]
Put(store, k, v) == (k :> v) @@ store
Del(store, k) == [x \in DOMAIN store \ {k} |-> store[x]]
Live(store, t) ==
  [x \in {k \in DOMAIN store : store[k].exp = NoExpire \/ store[k].exp > t}
     |-> store[x]]
\* SET key value EX ttl : the key lives ttl seconds from the write
SetEx(store, k, v, ttl, t) == Put(store, k, [val |-> v, exp |-> t + ttl * TicksPerSec])
\* Math.ceil(a / b) for b > 0
CeilDiv(a, b) == -((-a) \div b)

NoRes == [op |-> "none", h |-> 0, code |-> "none", body |-> 0]
Res(op, h, code, body) == [op |-> op, h |-> h, code |-> code, body |-> body]
\* ------------------------------------------- file-drop clean-up sweeps
IdleSweep == [pc |-> "idle", todo |-> {}, del |-> {}, cur |-> 0]
IdleRq == [op |-> "none"]
\* requests served one after the other all use the first slot
FirstSlot == CHOOSE p \in Slots : \A q \in Slots : p <= q
AllIdle == \A p \in Slots : pc[p] = "idle"

\* -------------------------------------------------------- file drops
\* file-drops/${dropHash.substring(0, 16)}/${fileId}.bin
Prefix16(h) == (h + 1) \div 2
DropObjectKey(h, fileId) == <<"file-drops", Prefix16(h), fileId>>

\* parseInt of a string: the value of its leading digits, NaN without one
NaN == -1
LeadingDigits(s) ==
  CHOOSE n \in 0..Len(s) :
    /\ \A i \in 1..n : s[i] \in 0..9
    /\ n < Len(s) => s[n + 1] \notin 0..9
RECURSIVE DigitsValue(_)
DigitsValue(s) ==
  IF s = <<>> THEN 0
  ELSE 10 * DigitsValue(SubSeq(s, 1, Len(s) - 1)) + s[Len(s)]
ParseInt(s) ==
  IF LeadingDigits(s) = 0 THEN NaN
  ELSE DigitsValue(SubSeq(s, 1, LeadingDigits(s)))

durationMap == [d \in {D10m, D1h, D24h} |->
                  IF d = D10m THEN 10 * 60
                  ELSE IF d = D1h THEN 60 * 60 ELSE 24 * 60 * 60]
\* duration.endsWith('m')
EndsWithM(d) == d # <<>> /\ d[Len(d)] = 109
\* parseInt of a custom "<N>m" duration
Minutes(d) == ParseInt(d)
\* the TTL createFileDrop resolves, in real seconds; 0: INVALID_DURATION.
\* Variant "list" (with the object-listing sweep) accepts custom minute
\* counts, variant "scan" (with the session-scan sweep) only the presets.
ResolveSecondsUnbounded(variant, d) ==
  IF d \in DOMAIN durationMap THEN durationMap[d]
  ELSE IF variant = "list" /\ EndsWithM(d) /\ Minutes(d) # NaN /\ Minutes(d) >= 1
         THEN Minutes(d) * 60
  ELSE 0
ResolveSeconds(variant, d) ==
  IF d \in DOMAIN durationMap THEN durationMap[d]
  ELSE IF variant = "list" /\ EndsWithM(d) /\ Minutes(d) # NaN
          /\ Minutes(d) >= 1 /\ Minutes(d) <= 2880
         THEN Minutes(d) * 60
  ELSE 0
ResolveTtl(variant, d) == ResolveSeconds(variant, d) \div SecPerUnit

\* the session record; createdAt, duration, ttl, uploadedAt and downloadedAt
\* are written and never read by the server, and are left out
NewDrop(t, ttl) ==
  [expiryTimestamp |-> t + ttl * TicksPerSec,
   fileId |-> NoFile, fileName |-> NoFile, fileSize |-> NoFile,
   iv |-> NoFile, authTag |-> NoFile, s3Key |-> NoKey, downloaded |-> FALSE]

\* the lazy expiry check of upload, validate and download
DropExpired(drop, t) == t > drop.expiryTimestamp
\* the TTL a rewrite of the session is given
RemainingTtl(drop, t) == CeilDiv(drop.expiryTimestamp - t, TicksPerSec)

\* fileName || "file"
StoredFileName(f) ==
  IF f.fileName = <<>> THEN <<102, 105, 108, 101>> ELSE f.fileName
\* parseInt(fileSize) || req.file.size
StoredFileSize(f) ==
  IF ParseInt(f.fileSize) \in {NaN, 0} THEN Len(f.file) ELSE ParseInt(f.fileSize)

AttachFile(drop, fileId, f, key) ==
  [drop EXCEPT !.fileId = fileId, !.fileName = StoredFileName(f),
               !.fileSize = StoredFileSize(f),
               !.iv = f.iv, !.authTag = f.authTag, !.s3Key = key]

MarkDownloadedLost(drop) == drop
MarkDownloaded(drop) == [drop EXCEPT !.downloaded = TRUE]

DropMeta(drop) == [fileId |-> drop.fileId, fileName |-> drop.fileName,
                   fileSize |-> drop.fileSize, iv |-> drop.iv, authTag |-> drop.authTag]

\* the body of validateDropCode's success reply
ValidateBody(drop, t) ==
  [fileId |-> drop.fileId, fileName |-> drop.fileName, fileSize |-> drop.fileSize,
   iv |-> drop.iv, authTag |-> drop.authTag, expiryTime |-> drop.expiryTimestamp,
   timeRemaining |-> CeilDiv(drop.expiryTimestamp - t, TicksPerSec)]

\* what validateDropCode answers for the session read (NoFile: key absent)
ValidateOutcomeFlagFirst(present, drop, t) ==
  IF ~present THEN "DROP_NOT_FOUND"
  ELSE IF drop.downloaded THEN "FILE_ALREADY_DOWNLOADED"
  ELSE IF DropExpired(drop, t) THEN "DROP_EXPIRED"
  ELSE IF drop.fileId = NoFile THEN "NO_FILE_UPLOADED_YET"
  ELSE "OK"
ValidateOutcome(present, drop, t) ==
  IF ~present THEN "DROP_NOT_FOUND"
  ELSE IF DropExpired(drop, t) THEN "DROP_EXPIRED"
  ELSE IF drop.downloaded THEN "FILE_ALREADY_DOWNLOADED"
  ELSE IF drop.fileId = NoFile THEN "NO_FILE_UPLOADED_YET"
  ELSE "OK"

DownloadGateAnyFile(present, drop, fileId, t) ==
  IF ~present THEN "DROP_NOT_FOUND"
  ELSE IF DropExpired(drop, t) THEN "DROP_EXPIRED"
  ELSE IF drop.downloaded THEN "FILE_ALREADY_DOWNLOADED"
  ELSE "OK"
DownloadGate(present, drop, fileId, t) ==
  IF ~present THEN "DROP_NOT_FOUND"
  ELSE IF DropExpired(drop, t) THEN "DROP_EXPIRED"
  ELSE IF drop.downloaded THEN "FILE_ALREADY_DOWNLOADED"
  ELSE IF drop.fileId # fileId THEN "FILE_ID_MISMATCH"
  ELSE "OK"

\* the HTTP status downloadFileDrop sends with each outcome
DownloadStatus(code) ==
  IF code = "DROP_NOT_FOUND" THEN 404
  ELSE IF code \in {"DROP_EXPIRED", "FILE_ALREADY_DOWNLOADED"} THEN 410
  ELSE IF code = "FILE_ID_MISMATCH" THEN 403
  ELSE IF code = "DOWNLOAD_FAILED" THEN 500
  ELSE 200

UploadGate(present, drop, t) ==
  IF ~present THEN "DROP_NOT_FOUND"
  ELSE IF DropExpired(drop, t) THEN "DROP_EXPIRED"
  ELSE IF drop.fileId # NoFile THEN "FILE_ALREADY_UPLOADED"
  ELSE "OK"

Finish(p, r) ==
  /\ pc' = [pc EXCEPT ![p] = "idle"]
  /\ rq' = [rq EXCEPT ![p] = IdleRq]
  /\ lastRes' = r
  /\ sent' = NoSent

Goto(p, label, locals) ==
  /\ pc' = [pc EXCEPT ![p] = label]
  /\ rq' = [rq EXCEPT ![p] = locals]
  /\ lastRes' = NoRes /\ sent' = NoSent

\* createFileDrop up to the awaited exists
CreateFileDrop(p, h, d) ==
  /\ pc[p] = "idle"
  /\ UNCHANGED <<now, drops, objects, nextFileId, sw, deployed, delivered, everDelivered, roomSide>>
  /\ LET ttl == ResolveTtl(deployed.drop, d)
     IN IF ResolveSeconds(deployed.drop, d) = 0
          THEN Finish(p, Res("create", h, "INVALID_DURATION", 0))
        ELSE IF h \in DOMAIN drops
          THEN Finish(p, Res("create", h, "DROP_ALREADY_EXISTS", 0))
        ELSE Goto(p, "cfd_set", [op |-> "create", h |-> h, ttl |-> ttl,
                                 duration |-> d, drop |-> NewDrop(now, ttl)])

\* createFileDrop: the awaited set and the reply
CreateFileDropSet(p) ==
  /\ pc[p] = "cfd_set"
  /\ LET h == rq[p].h
         drop == rq[p].drop
     IN /\ drops' = SetEx(drops, h, drop, rq[p].ttl, now)
        /\ delivered' = delivered \ {h}
        /\ Finish(p, Res("create", h, "OK",
                          [expiryTimestamp |-> drop.expiryTimestamp,
                           duration |-> rq[p].duration]))
  /\ UNCHANGED <<now, objects, nextFileId, sw, deployed, everDelivered, roomSide>>

\* uploadFileDrop up to the awaited get: the gate, a fresh file id
UploadFileDrop(p, h, f) ==
  /\ pc[p] = "idle"
  /\ LET present == h \in DOMAIN drops
         drop == IF present THEN drops[h].val ELSE NewDrop(0, 0)
         gate == UploadGate(present, drop, now)
     IN IF gate # "OK"
          THEN /\ Finish(p, Res("upload", h, gate, 0))
               /\ UNCHANGED nextFileId
          ELSE /\ nextFileId <= MaxFileId
               /\ nextFileId' = nextFileId + 1
               /\ Goto(p, "ufd_put", [op |-> "upload", h |-> h,
                                      ttl |-> RemainingTtl(drop, now),
                                      drop |-> AttachFile(drop, nextFileId, f,
                                                 DropObjectKey(h, nextFileId))])
  /\ UNCHANGED <<now, drops, objects, sw, deployed, delivered, everDelivered, roomSide>>

\* uploadFileDrop: the awaited PutObject
UploadFileDropPut(p) ==
  /\ pc[p] = "ufd_put"
  /\ objects' = objects \cup {rq[p].drop.s3Key}
  /\ Goto(p, "ufd_set", rq[p])
  /\ UNCHANGED <<now, drops, nextFileId, sw, deployed, delivered, everDelivered, roomSide>>

\* uploadFileDrop: the awaited rewrite of the session and the reply;
\* SET ... EX ttl with ttl <= 0 is refused by the store and the handler's
\* catch answers UPLOAD_FAILED
UploadFileDropSet(p) ==
  /\ pc[p] = "ufd_set"
  /\ LET r == rq[p]
     IN IF r.ttl <= 0
          THEN /\ UNCHANGED drops
               /\ Finish(p, Res("upload", r.h, "UPLOAD_FAILED", 0))
          ELSE /\ drops' = SetEx(drops, r.h, r.drop, r.ttl, now)
               /\ Finish(p, Res("upload", r.h, "OK", r.drop.fileId))
  /\ UNCHANGED <<now, objects, nextFileId, sw, deployed, delivered, everDelivered, roomSide>>

\* validateDropCode: one get, then the reply
ValidateDropCode(p, h) ==
  /\ pc[p] = "idle"
  /\ LET present == h \in DOMAIN drops
         drop == IF present THEN drops[h].val ELSE NewDrop(0, 0)
         out == ValidateOutcome(present, drop, now)
     IN Finish(p, Res("validate", h, out,
                      IF out = "OK" THEN ValidateBody(drop, now) ELSE 0))
  /\ UNCHANGED <<now, drops, objects, nextFileId, sw, deployed, delivered, everDelivered, roomSide>>

\* downloadFileDrop up to the awaited get: the gate
DownloadFileDrop(p, h, fileId) ==
  /\ pc[p] = "idle"
  /\ LET present == h \in DOMAIN drops
         drop == IF present THEN drops[h].val ELSE NewDrop(0, 0)
         gate == DownloadGate(present, drop, fileId, now)
     IN IF gate # "OK"
          THEN Finish(p, Res("download", h, gate, 0))
          ELSE Goto(p, "dfd_s3get", [op |-> "download", h |-> h,
                                     ttl |-> RemainingTtl(drop, now),
                                     drop |-> drop])
  /\ UNCHANGED <<now, drops, objects, nextFileId, sw, deployed, delivered, everDelivered, roomSide>>

\* downloadFileDrop: the awaited GetObject; a missing object makes the
\* client throw and the catch answers DOWNLOAD_FAILED
DownloadFileDropGet(p) ==
  /\ pc[p] = "dfd_s3get"
  /\ IF rq[p].drop.s3Key \in objects
       THEN Goto(p, "dfd_set", rq[p])
       ELSE Finish(p, Res("download", rq[p].h, "DOWNLOAD_FAILED", 0))
  /\ UNCHANGED <<now, drops, objects, nextFileId, sw, deployed, delivered, everDelivered, roomSide>>

\* downloadFileDrop: the awaited rewrite with downloaded = true, then pipe
DownloadFileDropSetOnce(p) ==
  /\ pc[p] = "dfd_set"
  /\ LET r == rq[p]
         marked == MarkDownloaded(r.drop)
     IN IF r.ttl <= 0 \/ r.h \notin DOMAIN drops \/ drops[r.h].val.downloaded
          THEN /\ UNCHANGED drops
               /\ Finish(p, Res("download", r.h, "DOWNLOAD_FAILED", 0))
          ELSE /\ drops' = SetEx(drops, r.h, marked, r.ttl, now)
               /\ pc' = [pc EXCEPT ![p] = "dfd_stream"]
               /\ rq' = [rq EXCEPT ![p] = [r EXCEPT !.drop = marked]]
               /\ lastRes' = Res("download", r.h, "STREAMING", DropMeta(r.drop))
               /\ sent' = NoSent
  /\ UNCHANGED <<now, objects, nextFileId, sw, deployed, delivered, everDelivered, roomSide>>
DownloadFileDropSet(p) ==
  /\ pc[p] = "dfd_set"
  /\ LET r == rq[p]
         marked == MarkDownloaded(r.drop)
     IN IF r.ttl <= 0
          THEN /\ UNCHANGED drops
               /\ Finish(p, Res("download", r.h, "DOWNLOAD_FAILED", 0))
          ELSE /\ drops' = SetEx(drops, r.h, marked, r.ttl, now)
               /\ pc' = [pc EXCEPT ![p] = "dfd_stream"]
               /\ rq' = [rq EXCEPT ![p] = [r EXCEPT !.drop = marked]]
               /\ lastRes' = Res("download", r.h, "STREAMING", DropMeta(r.drop))
               /\ sent' = NoSent
  /\ UNCHANGED <<now, objects, nextFileId, sw, deployed, delivered, everDelivered, roomSide>>

\* res.on('finish'): the stream reached its end
StreamFinish(p) ==
  /\ pc[p] = "dfd_stream"
  /\ pc' = [pc EXCEPT ![p] = "dfd_del"]
  /\ lastRes' = Res("stream", rq[p].h, "FINISHED", 0)
  /\ sent' = NoSent
  /\ delivered' = delivered \cup {rq[p].h}
  /\ everDelivered' = everDelivered \cup {rq[p].h}
  /\ UNCHANGED <<now, drops, objects, rq, nextFileId, sw, deployed, roomSide>>

\* res.on('finish'): the awaited DeleteObject; a failure is only logged
StreamDelete(p, fail) ==
  /\ pc[p] = "dfd_del"
  /\ objects' = IF fail THEN objects ELSE objects \ {rq[p].drop.s3Key}
  /\ Finish(p, NoRes)
  /\ UNCHANGED <<now, drops, nextFileId, sw, deployed, delivered, everDelivered, roomSide>>

\* res.on('error'): the session is written back with downloaded = false
\* and the TTL computed before the stream began
StreamError(p) ==
  /\ pc[p] = "dfd_stream"
  /\ drops' = SetEx(drops, rq[p].h, [rq[p].drop EXCEPT !.downloaded = FALSE],
                    rq[p].ttl, now)
  /\ Finish(p, Res("stream", rq[p].h, "ERROR", 0))
  /\ UNCHANGED <<now, objects, nextFileId, sw, deployed, delivered, everDelivered, roomSide>>

\* ------------------------------------------------------------- rooms
RoomHashes == {1}
\* a join code is a string of characters; digits are 0..9, anything else -1
GoodCode == <<1, 2, 3, 4, 5, 6>>
CodeInputs == {GoodCode, <<6, 5, 4, 3, 2, 1>>, <<1, 2, 3, 4, 5>>, <<1, 2, 3, 4, 5, -1>>}
\* /^\d{6}$/.test(code)
WellFormed(code) == Len(code) = 6 /\ \A i \in 1..Len(code) : code[i] \in 0..9
\* crypto.createHash("sha256").update(code).digest("hex"): distinct codes
\* have distinct hashes; hash 1 is the hash of GoodCode
Sha256(code) == IF code = GoodCode THEN 1 ELSE 2
GoodHash == Sha256(GoodCode)
Users == {1, 2}            \* creator_id / senderId values
Salt == 11                 \* room_salt sent by the client
Expiries == {1, 2}         \* expiry (seconds) offered to createRoom
ShortExpiry == CHOOSE e \in Expiries : \A x \in Expiries : e <= x
Creator == CHOOSE u \in Users : \A x \in Users : u <= x

Exists(store, k) == k \in DOMAIN store
\* TTL key: -2 without the key, -1 without expiry, else the remaining
\* time rounded to the nearest second
RedisTtl(store, k, t) ==
  IF k \notin DOMAIN store THEN -2
  ELSE IF store[k].exp = NoExpire THEN -1
  ELSE (2 * (store[k].exp - t) + TicksPerSec) \div (2 * TicksPerSec)
\* EXPIRE key seconds
Expire(store, k, secs, t) ==
  IF k \in DOMAIN store
    THEN [store EXCEPT ![k].exp = t + secs * TicksPerSec]
    ELSE store

RoomObjectKey(h, fileId) == <<"rooms", h, fileId>>
RoomObjects == {o \in objects : o[1] = "rooms"}

NewRoomLate(code, salt, isGroup, expiry, creator, t) ==
  [room_code |-> code, room_salt |-> salt, is_group |-> isGroup,
   expiry_timestamp |-> t + expiry * TicksPerSec + 1, creator_id |-> creator,
   createdAt |-> t]
NewRoom(code, salt, isGroup, expiry, creator, t) ==
  [room_code |-> code, room_salt |-> salt, is_group |-> isGroup,
   expiry_timestamp |-> t + expiry * TicksPerSec, creator_id |-> creator,
   createdAt |-> t]

\* createRoom up to the awaited exists
CreateRoomOverwrite(p, h, expiry, isGroup, creator) ==
  /\ pc[p] = "idle"
  /\ IF expiry = 0 THEN Finish(p, Res("createRoom", h, "INVALID_REQUEST", 0))
     ELSE IF expiry < 0 THEN Finish(p, Res("createRoom", h, "INVALID_EXPIRY", 0))
     ELSE Goto(p, "cr_set", [op |-> "createRoom", h |-> h, expiry |-> expiry,
                 is_group |-> isGroup, creator_id |-> creator])
  /\ UNCHANGED <<now, objects, nextFileId, sw, deployed, dropSide, roomSide>>

CreateRoom(p, h, expiry, isGroup, creator) ==
  /\ pc[p] = "idle"
  /\ IF expiry = 0 THEN Finish(p, Res("createRoom", h, "INVALID_REQUEST", 0))
     ELSE IF expiry < 0 THEN Finish(p, Res("createRoom", h, "INVALID_EXPIRY", 0))
     ELSE IF Exists(rooms, h)
       THEN Finish(p, Res("createRoom", h, "ROOM_ALREADY_EXISTS", 0))
     ELSE Goto(p, "cr_set", [op |-> "createRoom", h |-> h, expiry |-> expiry,
                 is_group |-> isGroup, creator_id |-> creator])
  /\ UNCHANGED <<now, objects, nextFileId, sw, deployed, dropSide, roomSide>>

\* createRoom: the payload, the awaited set and the reply
CreateRoomSet(p) ==
  /\ pc[p] = "cr_set"
  /\ rooms' = SetEx(rooms, rq[p].h,
                    NewRoom(GoodCode, Salt, rq[p].is_group, rq[p].expiry,
                            rq[p].creator_id, now),
                    rq[p].expiry, now)
  /\ Finish(p, Res("createRoom", rq[p].h, "OK", rq[p].expiry))
  /\ UNCHANGED <<now, objects, nextFileId, sw, deployed, dropSide, members,
                 messages, files, relaySide>>

\* cleanupRoomFiles(roomHash): the keys file:{roomHash}:* and, of those
\* still readable, the object keys they name
FileKeysOf(h) == {k \in DOMAIN files : k[1] = h}
S3KeysOf(keys) == {files[k].val.s3Key : k \in keys \cap DOMAIN files}

\* a handler calls cleanupRoomFiles and sends r when it returns
CallCleanup(p, h, r, burning) ==
  Goto(p, "cl_keys", [op |-> "cleanup", h |-> h, after |-> r, burning |-> burning])

AfterCleanup(p) ==
  IF rq[p].burning
    THEN Goto(p, "br_bcast", [op |-> "burnRoom", h |-> rq[p].h])
    ELSE Finish(p, rq[p].after)

\* cleanupRoomFiles: the awaited keys and the get of every key found
CleanupKeys(p) ==
  /\ pc[p] = "cl_keys"
  /\ LET keys == FileKeysOf(rq[p].h)
     IN IF keys = {} THEN AfterCleanup(p)
        ELSE Goto(p, IF S3KeysOf(keys) = {} THEN "cl_delkeys" ELSE "cl_delobj",
                  [op |-> "cleanup", h |-> rq[p].h, keys |-> keys,
                   s3Keys |-> S3KeysOf(keys), after |-> rq[p].after,
                   burning |-> rq[p].burning])
  /\ UNCHANGED <<now, objects, nextFileId, sw, deployed, dropSide, roomSide>>

\* cleanupRoomFiles: the awaited DeleteObjects; when it throws the catch
\* logs and cleanupRoomFiles returns without deleting the metadata
CleanupDeleteObjects(p, fail) ==
  /\ pc[p] = "cl_delobj"
  /\ IF fail
       THEN /\ UNCHANGED objects
            /\ AfterCleanup(p)
       ELSE /\ objects' = objects \ rq[p].s3Keys
            /\ Goto(p, "cl_delkeys", rq[p])
  /\ UNCHANGED <<now, nextFileId, sw, deployed, dropSide, roomSide>>

\* cleanupRoomFiles: the awaited del of the metadata keys
CleanupDeleteKeys(p) ==
  /\ pc[p] = "cl_delkeys"
  /\ files' = [k \in DOMAIN files \ rq[p].keys |-> files[k]]
  /\ AfterCleanup(p)
  /\ UNCHANGED <<now, objects, nextFileId, sw, deployed, dropSide, rooms, members,
                 messages, relaySide>>

\* the room controller deployed: "list" is the one whose sweep lists the
\* objects and whose not-found paths call cleanupRoomFiles, "scan" the one
\* whose sweep scans the file metadata and whose not-found paths do not
NotFound(p, h, r) ==
  IF deployed.room = "list" THEN CallCleanup(p, h, r, FALSE) ELSE Finish(p, r)

\* joinRoom up to the awaited exists
JoinRoom(p, code) ==
  /\ pc[p] = "idle"
  /\ LET h == Sha256(code)
     IN IF ~WellFormed(code)
          THEN Finish(p, Res("joinRoom", 0, "INVALID_CODE_FORMAT", 0))
        ELSE IF ~Exists(rooms, h)
          THEN NotFound(p, h, Res("joinRoom", h, "ROOM_NOT_FOUND", 0))
        ELSE Goto(p, "jr_ttl", [op |-> "joinRoom", h |-> h])
  /\ UNCHANGED <<now, objects, nextFileId, sw, deployed, dropSide, roomSide>>

\* joinRoom: the awaited ttl
JoinRoomTtl(p) ==
  /\ pc[p] = "jr_ttl"
  /\ IF RedisTtl(rooms, rq[p].h, now) <= 0
       THEN NotFound(p, rq[p].h, Res("joinRoom", rq[p].h, "ROOM_EXPIRED", 0))
       ELSE Goto(p, "jr_get", rq[p])
  /\ UNCHANGED <<now, objects, nextFileId, sw, deployed, dropSide, roomSide>>

\* joinRoom: the awaited get; JSON.parse(null) is null and reading
\* metadata.room_code throws, which the catch answers with SERVER_ERROR
JoinRoomGet(p) ==
  /\ pc[p] = "jr_get"
  /\ LET h == rq[p].h
     IN IF Exists(rooms, h)
          THEN Finish(p, Res("joinRoom", h, "OK",
                 [room_salt |-> rooms[h].val.room_salt,
                  expiry_timestamp |-> rooms[h].val.expiry_timestamp,
                  createdAt |-> rooms[h].val.createdAt]))
          ELSE Finish(p, Res("joinRoom", h, "SERVER_ERROR", 0))
  /\ UNCHANGED <<now, objects, nextFileId, sw, deployed, dropSide, roomSide>>

\* getRoomInfo: the awaited get (the ttl it awaits next is not used)
GetRoomInfo(p, h) ==
  /\ pc[p] = "idle"
  /\ IF Exists(rooms, h)
       THEN Finish(p, Res("getRoomInfo", h, "OK",
              [room_salt |-> rooms[h].val.room_salt,
               is_group |-> rooms[h].val.is_group,
               creator_id |-> rooms[h].val.creator_id,
               expiry_timestamp |-> rooms[h].val.expiry_timestamp]))
       ELSE NotFound(p, h, Res("getRoomInfo", h, "ROOM_NOT_FOUND", 0))
  /\ UNCHANGED <<now, objects, nextFileId, sw, deployed, dropSide, roomSide>>

\* getRoomMessages: const { page = 0, limit = 50 } = req.body
DefaultLimit == 50
Pages == 0..2
Limits == {1, 2, DefaultLimit}
\* LLEN and LRANGE start stop with indices from 0 that are not negative
LLen(store, k) == IF k \in DOMAIN store THEN Len(store[k].val) ELSE 0
LRange(list, start, stop) ==
  LET last == IF stop < Len(list) - 1 THEN stop ELSE Len(list) - 1
  IN IF start > last THEN <<>>
     ELSE [i \in 1..(last - start + 1) |-> list[start + i]]
\* Array.prototype.reverse
Reverse(list) == [i \in 1..Len(list) |-> list[Len(list) + 1 - i]]
\* the response body of getRoomMessages from what llen and lrange gave
PaginateNewestFirst(total, list, page, limit) ==
  [messages |-> LRange(list, page * limit, page * limit + limit - 1),
   page |-> page, limit |-> limit, total |-> total,
   hasMore |-> total > (page + 1) * limit]
Paginate(total, list, page, limit) ==
  [messages |-> Reverse(LRange(list, page * limit, page * limit + limit - 1)),
   page |-> page, limit |-> limit, total |-> total,
   hasMore |-> total > (page + 1) * limit]

\* getRoomMessages up to the awaited exists
GetRoomMessages(p, h, page, limit) ==
  /\ pc[p] = "idle"
  /\ IF Exists(rooms, h)
       THEN Goto(p, "gm_llen", [op |-> "getRoomMessages", h |-> h, page |-> page,
                               limit |-> limit])
       ELSE NotFound(p, h, Res("getRoomMessages", h, "ROOM_NOT_FOUND", 0))
  /\ UNCHANGED <<now, objects, nextFileId, sw, deployed, dropSide, roomSide>>

\* getRoomMessages: the awaited llen
GetRoomMessagesLlen(p) ==
  /\ pc[p] = "gm_llen"
  /\ Goto(p, "gm_lrange", [op |-> "getRoomMessages", h |-> rq[p].h,
                           page |-> rq[p].page, limit |-> rq[p].limit,
                           total |-> LLen(messages, rq[p].h)])
  /\ UNCHANGED <<now, objects, nextFileId, sw, deployed, dropSide, roomSide>>

\* getRoomMessages: the awaited lrange and the reply
GetRoomMessagesLrange(p) ==
  /\ pc[p] = "gm_lrange"
  /\ Finish(p, Res("getRoomMessages", rq[p].h, "OK",
              Paginate(rq[p].total,
                       IF rq[p].h \in DOMAIN messages THEN messages[rq[p].h].val
                       ELSE <<>>,
                       rq[p].page, rq[p].limit)))
  /\ UNCHANGED <<now, objects, nextFileId, sw, deployed, dropSide, roomSide>>

\* the ownership test of burnRoom
BurnGateAnyone(present, room, creator) ==
  IF ~present THEN "ROOM_NOT_FOUND" ELSE "OK"
BurnGate(present, room, creator) ==
  IF ~present THEN "ROOM_NOT_FOUND"
  ELSE IF room.creator_id # creator THEN "NOT_CREATOR"
  ELSE "OK"

\* burnRoom up to the awaited get
BurnRoom(p, h, creator) ==
  /\ pc[p] = "idle"
  /\ LET gate == BurnGate(Exists(rooms, h),
                          IF Exists(rooms, h) THEN rooms[h].val
                          ELSE NewRoom(GoodCode, Salt, FALSE, 0, 0, 0), creator)
     IN IF gate # "OK"
          THEN Finish(p, Res("burnRoom", h, gate, 0))
          ELSE Goto(p, "br_del_room", [op |-> "burnRoom", h |-> h])
  /\ UNCHANGED <<now, objects, nextFileId, sw, deployed, dropSide, roomSide>>

\* burnRoom: del room:{h}
BurnDelRoom(p) ==
  /\ pc[p] = "br_del_room"
  /\ rooms' = Del(rooms, rq[p].h)
  /\ Goto(p, "br_del_members", rq[p])
  /\ UNCHANGED <<now, objects, nextFileId, sw, deployed, dropSide, members,
                 messages, files, relaySide>>

\* burnRoom: del room:{h}:members
BurnDelMembers(p) ==
  /\ pc[p] = "br_del_members"
  /\ members' = Del(members, rq[p].h)
  /\ Goto(p, "br_del_messages", rq[p])
  /\ UNCHANGED <<now, objects, nextFileId, sw, deployed, dropSide, rooms,
                 messages, files, relaySide>>

\* burnRoom: del room:{h}:messages, then the call of cleanupRoomFiles
BurnDelMessages(p) ==
  /\ pc[p] = "br_del_messages"
  /\ messages' = Del(messages, rq[p].h)
  /\ CallCleanup(p, rq[p].h, NoRes, TRUE)
  /\ UNCHANGED <<now, objects, nextFileId, sw, deployed, dropSide, rooms,
                 members, files, relaySide>>

\* roomClients.get(roomHash), no connection when there is no entry
ClientsOf(registry, h) == IF h \in DOMAIN registry THEN registry[h] ELSE {}

\* client.send(frame) to every open connection of a set
SendAll(targets, frame) ==
  [c \in Conns |-> IF c \in targets /\ readyState[c] = "open"
                     THEN <<frame>> ELSE <<>>]

\* burnRoom: room_burnt to the room's connections, the registry entry
\* deleted, the reply
BurnBroadcast(p) ==
  /\ pc[p] = "br_bcast"
  /\ sent' = SendAll(ClientsOf(roomClients, rq[p].h), [type |-> "room_burnt"])
  /\ roomClients' = Del(roomClients, rq[p].h)
  /\ pc' = [pc EXCEPT ![p] = "idle"]
  /\ rq' = [rq EXCEPT ![p] = IdleRq]
  /\ lastRes' = Res("burnRoom", rq[p].h, "OK", 0)
  /\ UNCHANGED <<now, objects, nextFileId, sw, deployed, dropSide, rooms, members,
                 messages, files, readyState, roomCache, ws, bg, nextMsgId, capCase>>

\* ----------------------------------------------------- room files
\* pbkdf2(room_code, room_salt) and hmacSha256(key, data) as injective
\* functions of their arguments
Pbkdf2(code, salt) == <<"key", code, salt>>
HmacSha256(key, data) == <<"mac", key, data>>
VerifyHmacAny(key, data, hmac) == TRUE
VerifyHmac(key, data, hmac) == HmacSha256(key, data) = hmac
\* base64(ciphertext) + iv + authTag
MessageData(f) == <<f.file, f.iv, f.authTag>>
HmacInputs(f) == {HmacSha256(Pbkdf2(GoodCode, Salt), MessageData(f)),
                  HmacSha256(Pbkdf2(<<>>, Salt), MessageData(f))}

FileMeta(fileId, f, key) ==
  [fileId |-> fileId, fileName |-> StoredFileName(f),
   fileSize |-> StoredFileSize(f),
   s3Key |-> key, iv |-> f.iv, authTag |-> f.authTag]

\* uploadImage up to the awaited PutObject
UploadImage(p, h, f, hmac) ==
  /\ pc[p] = "idle"
  /\ IF ~Exists(rooms, h)
       THEN /\ Finish(p, Res("uploadImage", h, "ROOM_NOT_FOUND", 0))
            /\ UNCHANGED nextFileId
     ELSE IF now > rooms[h].val.expiry_timestamp
       THEN /\ Finish(p, Res("uploadImage", h, "ROOM_EXPIRED", 0))
            /\ UNCHANGED nextFileId
     ELSE IF ~VerifyHmac(Pbkdf2(rooms[h].val.room_code, rooms[h].val.room_salt),
                         MessageData(f), hmac)
       THEN /\ Finish(p, Res("uploadImage", h, "INVALID_HMAC", 0))
            /\ UNCHANGED nextFileId
     ELSE /\ nextFileId <= MaxFileId
          /\ nextFileId' = nextFileId + 1
          /\ Goto(p, "ui_put",
                  [op |-> "uploadImage", h |-> h, fileId |-> nextFileId, f |-> f,
                   ttl |-> CeilDiv(rooms[h].val.expiry_timestamp - now, TicksPerSec)])
  /\ UNCHANGED <<now, objects, sw, deployed, dropSide, roomSide>>

\* uploadImage: the object is stored, then the TTL is validated
UploadImagePut(p) ==
  /\ pc[p] = "ui_put"
  /\ objects' = objects \cup {RoomObjectKey(rq[p].h, rq[p].fileId)}
  /\ IF rq[p].ttl <= 0
       THEN Finish(p, Res("uploadImage", rq[p].h, "INVALID_ROOM_EXPIRY", 0))
       ELSE Goto(p, "ui_set", rq[p])
  /\ UNCHANGED <<now, nextFileId, sw, deployed, dropSide, roomSide>>

\* uploadImage: the metadata is stored with the TTL computed
UploadImageSet(p) ==
  /\ pc[p] = "ui_set"
  /\ files' = SetEx(files, <<rq[p].h, rq[p].fileId>>,
                    FileMeta(rq[p].fileId, rq[p].f,
                             RoomObjectKey(rq[p].h, rq[p].fileId)),
                    rq[p].ttl, now)
  /\ Finish(p, Res("uploadImage", rq[p].h, "OK", rq[p].fileId))
  /\ UNCHANGED <<now, objects, nextFileId, sw, deployed, dropSide, rooms, members,
                 messages, relaySide>>

\* the decimal digits of a number that is not negative
RECURSIVE DecimalString(_)
DecimalString(n) ==
  IF n < 10 THEN <<n>> ELSE Append(DecimalString(n \div 10), n % 10)
\* res.setHeader(name, value) throws on a value with a character other
\* than tab, U+0020..U+007E and U+0080..U+00FF
HeaderValueOk(s) ==
  \A i \in 1..Len(s) : s[i] = 9 \/ s[i] \in 32..126 \/ s[i] \in 128..255
\* Content-Length, X-File-IV, X-File-AuthTag and X-File-FileName
DownloadHeaders(metadata) ==
  [fileSize |-> DecimalString(metadata.fileSize), iv |-> metadata.iv,
   authTag |-> metadata.authTag, fileName |-> metadata.fileName]

\* downloadFile up to the awaited get of the room
DownloadFile(p, h, fileId) ==
  /\ pc[p] = "idle"
  /\ IF ~Exists(rooms, h)
       THEN Finish(p, Res("downloadFile", h, "ROOM_NOT_FOUND", 0))
       ELSE Goto(p, "df_get", [op |-> "downloadFile", h |-> h, fileId |-> fileId])
  /\ UNCHANGED <<now, objects, nextFileId, sw, deployed, dropSide, roomSide>>

\* downloadFile: the awaited get of the file metadata
DownloadFileGet(p) ==
  /\ pc[p] = "df_get"
  /\ IF ~Exists(files, <<rq[p].h, rq[p].fileId>>)
       THEN Finish(p, Res("downloadFile", rq[p].h, "FILE_NOT_FOUND", 0))
       ELSE Goto(p, "df_s3get",
                 [op |-> "downloadFile", h |-> rq[p].h, fileId |-> rq[p].fileId,
                  metadata |-> files[<<rq[p].h, rq[p].fileId>>].val])
  /\ UNCHANGED <<now, objects, nextFileId, sw, deployed, dropSide, roomSide>>

\* downloadFile: the awaited GetObject, the headers and the pipe; a
\* missing object makes the client throw, a header value that is refused
\* makes setHeader throw, and the catch answers DOWNLOAD_FAILED
DownloadFileObject(p) ==
  /\ pc[p] = "df_s3get"
  /\ IF rq[p].metadata.s3Key \notin objects
       THEN Finish(p, Res("downloadFile", rq[p].h, "DOWNLOAD_FAILED", 0))
     ELSE IF ~HeaderValueOk(rq[p].metadata.fileName)
       THEN Finish(p, Res("downloadFile", rq[p].h, "DOWNLOAD_FAILED", 0))
     ELSE Finish(p, Res("downloadFile", rq[p].h, "OK",
                        DownloadHeaders(rq[p].metadata)))
  /\ UNCHANGED <<now, objects, nextFileId, sw, deployed, dropSide, roomSide>>

\* ------------------------------------------------------ message relay
\* sender ids as the pair of their format and a number
Senders == {<<"uuid", 1>>, <<"uuid", 2>>, <<"uuid", 3>>}
\* uuidRegex.test(senderId)
IsUuid(senderId) == senderId[1] = "uuid"
\* a base64 field of a frame is the number of bytes it decodes to;
\* Missing stands for an absent or empty field
Missing == -1
GoodChat(h, senderId) ==
  [type |-> "chat", roomHash |-> h, ciphertext |-> 5, iv |-> 12, authTag |-> 16, hmac |-> 32,
   senderId |-> senderId]
\* senderId absent from the frame
NoSender == <<"none", 0>>
ChatInputs(h) ==
  {GoodChat(h, s) : s \in Senders}
    \cup {[GoodChat(h, <<"uuid", 1>>) EXCEPT !.hmac = Missing],
          [GoodChat(h, <<"uuid", 1>>) EXCEPT !.ciphertext = Missing],
          [GoodChat(h, <<"uuid", 1>>) EXCEPT !.roomHash = Missing],
          GoodChat(h, NoSender),
          [GoodChat(h, <<"uuid", 1>>) EXCEPT !.iv = 8],
          [GoodChat(h, <<"uuid", 1>>) EXCEPT !.authTag = 8],
          [GoodChat(h, <<"uuid", 1>>) EXCEPT !.ciphertext = 0],
          GoodChat(h, <<"text", 1>>)}

\* the basic validation and the validation of the cryptographic
\* parameters; only the synchronous controller tests the sender id
ChatValidationLax(variant, msg) == "OK"
ChatValidation(variant, msg) ==
  IF \/ msg.roomHash = Missing \/ msg.ciphertext = Missing \/ msg.iv = Missing
     \/ msg.authTag = Missing \/ msg.hmac = Missing \/ msg.senderId = NoSender
    THEN "INVALID_PAYLOAD"
  ELSE IF \/ msg.iv # 12 \/ msg.authTag # 16 \/ msg.ciphertext = 0
          \/ (variant = "sync" /\ ~IsUuid(msg.senderId))
    THEN "INVALID_CRYPTO_PARAMETERS"
  ELSE "OK"

\* const maxMembers = isGroup ? 20 : 2, and the test against it
MaxMembers(isGroup) == IF isGroup THEN 20 ELSE 2
OverCapNever(memberCount, isGroup) == FALSE
OverCap(memberCount, isGroup) == memberCount > MaxMembers(isGroup)

AllWsIdle == \A w \in WsSlots : ws[w].pc = "idle"
Quiet == AllWsIdle /\ bg = {}

ErrorFrame(e) == [type |-> "error", error |-> e]
AckFrame(msgId) == [type |-> "ack", msgId |-> msgId]
ChatFrame(msg, msgId) ==
  [type |-> "chat", roomHash |-> msg.roomHash, msgId |-> msgId,
   senderId |-> msg.senderId]
LogEntry(msg, msgId) ==
  [msgId |-> msgId, senderId |-> msg.senderId, kind |-> "chat", deleted |-> FALSE]

\* a file message and a delete_message, with the fields the server reads
GoodFile(h, senderId) ==
  [type |-> "file", roomHash |-> h, fileId |-> 1, senderId |-> senderId]
GoodJoin(h, senderId) == [type |-> "join_room", roomHash |-> h, senderId |-> senderId]
GoodDelete(h, messageId, senderId) ==
  [type |-> "delete_message", roomHash |-> h, messageId |-> messageId,
   senderId |-> senderId]
\* !roomHash || !fileIdentifier || !senderId, !roomHash || !messageId || !senderId
EventValidation(msg) ==
  IF \/ msg.roomHash = Missing \/ msg.senderId = NoSender
     \/ (msg.type = "file" /\ msg.fileId = Missing)
     \/ (msg.type = "delete_message" /\ msg.messageId = Missing)
    THEN "INVALID_PAYLOAD"
  ELSE "OK"
FileFrame(msg) ==
  [type |-> "file", roomHash |-> msg.roomHash, fileId |-> msg.fileId,
   senderId |-> msg.senderId]
DeleteFrame(msg) ==
  [type |-> "delete_message", messageId |-> msg.messageId, senderId |-> msg.senderId]
FileLogEntry(msg, msgId) ==
  [msgId |-> msgId, senderId |-> msg.senderId, kind |-> "file", deleted |-> FALSE]
\* the first entry of the list with the msgId and senderId of a
\* delete_message, as a position from 1; 0 when there is none
FindEntry(list, msg) ==
  IF \E i \in 1..Len(list) :
        list[i].msgId = msg.messageId /\ list[i].senderId = msg.senderId
    THEN CHOOSE i \in 1..Len(list) :
           /\ list[i].msgId = msg.messageId /\ list[i].senderId = msg.senderId
           /\ \A j \in 1..(i - 1) :
                ~(list[j].msgId = msg.messageId /\ list[j].senderId = msg.senderId)
    ELSE 0
\* LSET key index value: refused without the key or beyond the list
LSetOk(store, k, i) == k \in DOMAIN store /\ i \in 1..Len(store[k].val)
LSet(store, k, i, v) == [store EXCEPT ![k].val[i] = v]

\* roomClients.get(roomHash).add(ws), the set made when there is none
Register(h, c) ==
  Put(roomClients, h, (IF h \in DOMAIN roomClients THEN roomClients[h] ELSE {}) \cup {c})

\* SADD, SCARD, SREM, LPUSH; a key made by SADD or LPUSH has no expiry,
\* a set emptied by SREM is removed
SAdd(store, k, x) ==
  IF k \in DOMAIN store THEN [store EXCEPT ![k].val = @ \cup {x}]
  ELSE Put(store, k, [val |-> {x}, exp |-> NoExpire])
SCard(store, k) == IF k \in DOMAIN store THEN Cardinality(store[k].val) ELSE 0
SRem(store, k, x) ==
  IF k \notin DOMAIN store THEN store
  ELSE IF store[k].val \ {x} = {} THEN Del(store, k)
  ELSE [store EXCEPT ![k].val = @ \ {x}]
LPush(store, k, x) ==
  IF k \in DOMAIN store THEN [store EXCEPT ![k].val = <<x>> \o @]
  ELSE Put(store, k, [val |-> <<x>>, exp |-> NoExpire])

\* the error reply of a handler, which ends it
WsReply(w, c, h, code) ==
  /\ sent' = SendAll({c}, ErrorFrame(code))
  /\ ws' = [ws EXCEPT ![w] = IdleWs]
  /\ lastRes' = Res("chat", h, code, 0)

\* the broadcast of an accepted message and the acknowledgement
Deliver(c, msg, msgId, registry, toSender) ==
  LET targets == {x \in ClientsOf(registry, msg.roomHash) :
                    (toSender \/ x # c) /\ readyState[x] = "open"}
  IN /\ sent' = [x \in Conns |->
                   (IF x \in targets THEN <<ChatFrame(msg, msgId)>> ELSE <<>>)
                   \o (IF x = c /\ readyState[c] = "open"
                         THEN <<AckFrame(msgId)>> ELSE <<>>)]
     /\ lastRes' = Res("chat", msg.roomHash, "OK", msgId)

\* the chat message that finds the room full with nothing else in flight
CapCase(w, msg, isGroup) ==
  IF /\ \A v \in WsSlots \ {w} : ws[v].pc = "idle"
     /\ bg = {}
     /\ msg.roomHash \in DOMAIN members
     /\ msg.senderId \notin members[msg.roomHash].val
     /\ Cardinality(members[msg.roomHash].val) >= MaxMembers(isGroup)
    THEN [h |-> msg.roomHash, senderId |-> msg.senderId, msgId |-> nextMsgId,
          members |-> members[msg.roomHash].val]
    ELSE NoCase

\* what a step of the relay leaves alone
RelayFrame == <<now, objects, pc, rq, nextFileId, sw, deployed, dropSide, files>>

\* wss.on("connection")
Connect(c) ==
  /\ readyState[c] = "none"
  /\ readyState' = [readyState EXCEPT ![c] = "open"]
  /\ lastRes' = NoRes /\ sent' = NoSent
  /\ UNCHANGED <<RelayFrame, rooms, members, messages, roomClients,
                 roomCache, ws, bg, nextMsgId, capCase>>

\* ws.on("close"): the connection leaves every room, empty sets are removed
Close(c) ==
  /\ readyState[c] = "open"
  /\ readyState' = [readyState EXCEPT ![c] = "closed"]
  /\ roomClients' = [h \in {x \in DOMAIN roomClients : roomClients[x] \ {c} # {}}
                       |-> roomClients[h] \ {c}]
  /\ lastRes' = NoRes /\ sent' = NoSent
  /\ UNCHANGED <<RelayFrame, rooms, members, messages, roomCache, ws, bg,
                 nextMsgId, capCase>>

\* ws.on("pong"): the answer of the client to a ping is logged
Pong(c) ==
  /\ readyState[c] = "open"
  /\ lastRes' = Res("pong", 0, "OK", c)
  /\ sent' = NoSent
  /\ UNCHANGED <<RelayFrame, rooms, members, messages, roomClients, readyState,
                 roomCache, ws, bg, nextMsgId, capCase>>

\* the setTimeout set when the connection was made, at connectedAt, fires
\* after CONNECTION_TIMEOUT: ws.terminate(), and the close handler runs
CONNECTION_TIMEOUT == 5 * 60 * 1000
TimeoutTicks == (CONNECTION_TIMEOUT * TicksPerSec) \div 1000
ConnectionTimeout(c, connectedAt) ==
  /\ readyState[c] = "open"
  /\ now >= connectedAt + TimeoutTicks
  /\ readyState' = [readyState EXCEPT ![c] = "closed"]
  /\ roomClients' = [h \in {x \in DOMAIN roomClients : roomClients[x] \ {c} # {}}
                       |-> roomClients[h] \ {c}]
  /\ lastRes' = Res("timeout", 0, "TERMINATED", c)
  /\ sent' = NoSent
  /\ UNCHANGED <<RelayFrame, rooms, members, messages, roomCache, ws, bg,
                 nextMsgId, capCase>>

\* text frames that are no JSON object: ping, "ping", " ping " in quotes,
\* and "pong" in quotes
TextFrames == {"ping", "\"ping\"", "\" ping \"", "\"pong\""}
\* JSON.parse of such a frame: the string between the quotes, or a throw
JsonParse(raw) ==
  IF raw = "\"ping\"" THEN [ok |-> TRUE, value |-> "ping"]
  ELSE IF raw = "\" ping \"" THEN [ok |-> TRUE, value |-> " ping "]
  ELSE IF raw = "\"pong\"" THEN [ok |-> TRUE, value |-> "pong"]
  ELSE [ok |-> FALSE, value |-> ""]
\* String.prototype.trim
Trim(str) == IF str = " ping " THEN "ping" ELSE str
PongFrame == [type |-> "pong"]

\* ws.on("message") of a text frame that is no JSON object: JSON.parse of
\* the frame, whose throw is answered INVALID_MESSAGE, then handleMessage
\* with the string parsed, which answers pong to ping and parses any
\* other string once more
TextFrame(c, raw) ==
  /\ readyState[c] = "open"
  /\ LET data == JsonParse(raw)
         code == IF ~data.ok THEN "INVALID_MESSAGE"
                 ELSE IF Trim(data.value) = "ping" THEN "PONG"
                 ELSE IF ~JsonParse(data.value).ok THEN "INVALID_MESSAGE"
                 ELSE "PONG"
     IN /\ sent' = SendAll({c}, IF code = "PONG" THEN PongFrame ELSE ErrorFrame(code))
        /\ lastRes' = Res("frame", c, code, raw)
  /\ UNCHANGED <<RelayFrame, rooms, members, messages, roomClients, readyState,
                 roomCache, ws, bg, nextMsgId, capCase>>

\* handleMessage, synchronous controller, a chat message: the validation
\* and the awaited get of the room
Chat(w, c, msg) ==
  /\ deployed.relay = "sync"
  /\ ws[w].pc = "idle"
  /\ readyState[c] = "open"
  /\ capCase' = NoCase
  /\ IF ChatValidation("sync", msg) # "OK"
       THEN WsReply(w, c, msg.roomHash, ChatValidation("sync", msg))
     ELSE IF ~Exists(rooms, msg.roomHash)
       THEN WsReply(w, c, msg.roomHash, "ROOM_INVALID")
     ELSE /\ nextMsgId <= MaxMsgs
          /\ ws' = [ws EXCEPT ![w] = [pc |-> "sadd", c |-> c, msg |-> msg,
                       isGroup |-> rooms[msg.roomHash].val.is_group]]
          /\ lastRes' = NoRes /\ sent' = NoSent
  /\ UNCHANGED <<RelayFrame, rooms, members, messages, roomClients, readyState,
                 roomCache, bg, nextMsgId>>

\* synchronous controller: sadd of the sender id
ChatSadd(w) ==
  /\ ws[w].pc = "sadd"
  /\ LET h == ws[w].msg.roomHash
         s == ws[w].msg.senderId
     IN /\ members' = SAdd(members, h, s)
        /\ capCase' = CapCase(w, ws[w].msg, ws[w].isGroup)
        /\ ws' = [ws EXCEPT ![w] = [pc |-> "scard", c |-> ws[w].c, msg |-> ws[w].msg,
                     isGroup |-> ws[w].isGroup,
                     isNewMember |-> ~(h \in DOMAIN members /\ s \in members[h].val)]]
  /\ lastRes' = NoRes /\ sent' = NoSent
  /\ UNCHANGED <<RelayFrame, rooms, messages, roomClients, readyState,
                 roomCache, bg, nextMsgId>>

\* synchronous controller: scard
ChatScard(w) ==
  /\ ws[w].pc = "scard"
  /\ ws' = [ws EXCEPT ![w] = [pc |-> "capcheck", c |-> ws[w].c, msg |-> ws[w].msg,
               isGroup |-> ws[w].isGroup, isNewMember |-> ws[w].isNewMember,
               memberCount |-> SCard(members, ws[w].msg.roomHash)]]
  /\ lastRes' = NoRes /\ sent' = NoSent
  /\ UNCHANGED <<RelayFrame, rooms, members, messages, roomClients, readyState,
                 roomCache, bg, nextMsgId, capCase>>

\* the connection is registered, the message id made and the lpush awaited
RegisterAndPush(w) ==
  /\ roomClients' = Register(ws[w].msg.roomHash, ws[w].c)
  /\ messages' = LPush(messages, ws[w].msg.roomHash, LogEntry(ws[w].msg, nextMsgId))
  /\ nextMsgId' = nextMsgId + 1
  /\ ws' = [ws EXCEPT ![w] = [pc |-> "lttl", c |-> ws[w].c, msg |-> ws[w].msg,
               msgId |-> nextMsgId]]

\* synchronous controller: the test of the cap; srem and ROOM_FULL over
\* it, else the ttl of the room for a new member, else the lpush
ChatCapCheck(w) ==
  /\ ws[w].pc = "capcheck"
  /\ IF OverCap(ws[w].memberCount, ws[w].isGroup)
       THEN /\ members' = SRem(members, ws[w].msg.roomHash, ws[w].msg.senderId)
            /\ WsReply(w, ws[w].c, ws[w].msg.roomHash, "ROOM_FULL")
            /\ UNCHANGED <<roomClients, messages, nextMsgId>>
     ELSE IF ws[w].isNewMember
       THEN /\ ws' = [ws EXCEPT ![w] = [pc |-> "mttl", c |-> ws[w].c, msg |-> ws[w].msg,
                         roomTtl |-> RedisTtl(rooms, ws[w].msg.roomHash, now)]]
            /\ lastRes' = NoRes /\ sent' = NoSent
            /\ UNCHANGED <<members, roomClients, messages, nextMsgId>>
     ELSE /\ RegisterAndPush(w)
          /\ lastRes' = NoRes /\ sent' = NoSent
          /\ UNCHANGED members
  /\ UNCHANGED <<RelayFrame, rooms, readyState, roomCache, bg, capCase>>

\* synchronous controller, new member: expire of the membership set when
\* the room's ttl is positive, else straight to the lpush
ChatMembersExpire(w) ==
  /\ ws[w].pc = "mttl"
  /\ IF ws[w].roomTtl > 0
       THEN /\ members' = Expire(members, ws[w].msg.roomHash, ws[w].roomTtl, now)
            /\ ws' = [ws EXCEPT ![w] = [pc |-> "lpush", c |-> ws[w].c, msg |-> ws[w].msg]]
            /\ UNCHANGED <<roomClients, messages, nextMsgId>>
       ELSE /\ RegisterAndPush(w)
            /\ UNCHANGED members
  /\ lastRes' = NoRes /\ sent' = NoSent
  /\ UNCHANGED <<RelayFrame, rooms, readyState, roomCache, bg, capCase>>

\* synchronous controller: registration and lpush after the expire
ChatLpush(w) ==
  /\ ws[w].pc = "lpush"
  /\ RegisterAndPush(w)
  /\ lastRes' = NoRes /\ sent' = NoSent
  /\ UNCHANGED <<RelayFrame, rooms, members, readyState, roomCache, bg, capCase>>

\* synchronous controller: ttl of the room after the lpush
ChatLogTtl(w) ==
  /\ ws[w].pc = "lttl"
  /\ ws' = [ws EXCEPT ![w] = [pc |-> "lexpire", c |-> ws[w].c, msg |-> ws[w].msg,
               msgId |-> ws[w].msgId,
               roomTtl |-> RedisTtl(rooms, ws[w].msg.roomHash, now)]]
  /\ lastRes' = NoRes /\ sent' = NoSent
  /\ UNCHANGED <<RelayFrame, rooms, members, messages, roomClients, readyState,
                 roomCache, bg, nextMsgId, capCase>>

\* synchronous controller: expire of the log when the room's ttl is
\* positive, else the broadcast to the others and the acknowledgement
ChatLogExpire(w) ==
  /\ ws[w].pc = "lexpire"
  /\ IF ws[w].roomTtl > 0
       THEN /\ messages' = Expire(messages, ws[w].msg.roomHash, ws[w].roomTtl, now)
            /\ ws' = [ws EXCEPT ![w] = [pc |-> "deliver", c |-> ws[w].c,
                         msg |-> ws[w].msg, msgId |-> ws[w].msgId]]
            /\ lastRes' = NoRes /\ sent' = NoSent
       ELSE /\ Deliver(ws[w].c, ws[w].msg, ws[w].msgId, roomClients, FALSE)
            /\ ws' = [ws EXCEPT ![w] = IdleWs]
            /\ UNCHANGED messages
  /\ UNCHANGED <<RelayFrame, rooms, members, roomClients, readyState, roomCache,
                 bg, nextMsgId, capCase>>

\* synchronous controller: the broadcast and the acknowledgement
ChatDeliver(w) ==
  /\ ws[w].pc = "deliver"
  /\ Deliver(ws[w].c, ws[w].msg, ws[w].msgId, roomClients, FALSE)
  /\ ws' = [ws EXCEPT ![w] = IdleWs]
  /\ UNCHANGED <<RelayFrame, rooms, members, messages, roomClients, readyState,
                 roomCache, bg, nextMsgId, capCase>>

\* the reply that ends the handler of a file or delete_message
EventReply(w, c, msg, code) ==
  /\ sent' = SendAll({c}, IF code = "OK" THEN AckFrame(0) ELSE ErrorFrame(code))
  /\ ws' = [ws EXCEPT ![w] = IdleWs]
  /\ lastRes' = Res(msg.type, msg.roomHash, code, msg)

\* the copies of an event sent to the open connections of the room
Broadcast(c, h, frame, registry, toSender) ==
  [x \in Conns |->
     IF x \in ClientsOf(registry, h) /\ (toSender \/ x # c) /\ readyState[x] = "open"
       THEN <<frame>> ELSE <<>>]

\* handleMessage, synchronous controller, a file message: the validation,
\* the awaited get of the room, the registration and the broadcast to the
\* other connections
FileMsg(w, c, msg) ==
  /\ deployed.relay = "sync"
  /\ ws[w].pc = "idle"
  /\ readyState[c] = "open"
  /\ capCase' = NoCase
  /\ IF EventValidation(msg) # "OK"
       THEN /\ EventReply(w, c, msg, EventValidation(msg))
            /\ UNCHANGED roomClients
     ELSE IF ~Exists(rooms, msg.roomHash)
       THEN /\ EventReply(w, c, msg, "ROOM_INVALID")
            /\ UNCHANGED roomClients
     ELSE /\ nextMsgId <= MaxMsgs
          /\ roomClients' = Register(msg.roomHash, c)
          /\ sent' = Broadcast(c, msg.roomHash, FileFrame(msg),
                               Register(msg.roomHash, c), FALSE)
          /\ ws' = [ws EXCEPT ![w] = [pc |-> "f_lpush", c |-> c, msg |-> msg]]
          /\ lastRes' = NoRes
  /\ UNCHANGED <<RelayFrame, rooms, members, messages, readyState, roomCache, bg,
                 nextMsgId>>

\* synchronous controller, file message: the lpush
FileLpush(w) ==
  /\ ws[w].pc = "f_lpush"
  /\ messages' = LPush(messages, ws[w].msg.roomHash,
                       FileLogEntry(ws[w].msg, nextMsgId))
  /\ nextMsgId' = nextMsgId + 1
  /\ ws' = [ws EXCEPT ![w] = [pc |-> "f_ttl", c |-> ws[w].c, msg |-> ws[w].msg,
               msgId |-> nextMsgId]]
  /\ lastRes' = NoRes /\ sent' = NoSent
  /\ UNCHANGED <<RelayFrame, rooms, members, roomClients, readyState, roomCache,
                 bg, capCase>>

\* the acknowledgement that ends the handler of a file message
FileAck(w) ==
  /\ sent' = SendAll({ws[w].c}, AckFrame(ws[w].msgId))
  /\ lastRes' = Res("file", ws[w].msg.roomHash, "OK", ws[w].msgId)
  /\ ws' = [ws EXCEPT ![w] = IdleWs]

\* synchronous controller, file message: the ttl of the room
FileLogTtl(w) ==
  /\ ws[w].pc = "f_ttl"
  /\ IF RedisTtl(rooms, ws[w].msg.roomHash, now) > 0
       THEN /\ ws' = [ws EXCEPT ![w] = [pc |-> "f_expire", c |-> ws[w].c,
                         msg |-> ws[w].msg, msgId |-> ws[w].msgId,
                         roomTtl |-> RedisTtl(rooms, ws[w].msg.roomHash, now)]]
            /\ lastRes' = NoRes /\ sent' = NoSent
       ELSE FileAck(w)
  /\ UNCHANGED <<RelayFrame, rooms, members, messages, roomClients, readyState,
                 roomCache, bg, nextMsgId, capCase>>

\* synchronous controller, file message: the expire of the log and the
\* acknowledgement
FileLogExpire(w) ==
  /\ ws[w].pc = "f_expire"
  /\ messages' = Expire(messages, ws[w].msg.roomHash, ws[w].roomTtl, now)
  /\ FileAck(w)
  /\ UNCHANGED <<RelayFrame, rooms, members, roomClients, readyState, roomCache,
                 bg, nextMsgId, capCase>>

\* handleMessage, synchronous controller, a delete_message: the
\* validation, the awaited get of the room and the registration
DeleteMsg(w, c, msg) ==
  /\ deployed.relay = "sync"
  /\ ws[w].pc = "idle"
  /\ readyState[c] = "open"
  /\ capCase' = NoCase
  /\ IF EventValidation(msg) # "OK"
       THEN /\ EventReply(w, c, msg, EventValidation(msg))
            /\ UNCHANGED roomClients
     ELSE IF ~Exists(rooms, msg.roomHash)
       THEN /\ EventReply(w, c, msg, "ROOM_INVALID")
            /\ UNCHANGED roomClients
     ELSE /\ roomClients' = Register(msg.roomHash, c)
          /\ ws' = [ws EXCEPT ![w] = [pc |-> "d_lrange", c |-> c, msg |-> msg]]
          /\ lastRes' = NoRes /\ sent' = NoSent
  /\ UNCHANGED <<RelayFrame, rooms, members, messages, readyState, roomCache, bg,
                 nextMsgId>>

\* synchronous controller, delete_message: the lrange and the search;
\* MESSAGE_NOT_FOUND without a match
DeleteLrange(w) ==
  /\ ws[w].pc = "d_lrange"
  /\ LET list == IF ws[w].msg.roomHash \in DOMAIN messages
                   THEN messages[ws[w].msg.roomHash].val ELSE <<>>
         i == FindEntry(list, ws[w].msg)
     IN IF i = 0
          THEN EventReply(w, ws[w].c, ws[w].msg, "MESSAGE_NOT_FOUND")
          ELSE /\ ws' = [ws EXCEPT ![w] = [pc |-> "d_lset", c |-> ws[w].c,
                            msg |-> ws[w].msg, i |-> i,
                            msgData |-> [list[i] EXCEPT !.deleted = TRUE]]]
               /\ lastRes' = NoRes /\ sent' = NoSent
  /\ UNCHANGED <<RelayFrame, rooms, members, messages, roomClients, readyState,
                 roomCache, bg, nextMsgId, capCase>>

\* synchronous controller, delete_message: the lset at the index found,
\* the broadcast to the other connections and the acknowledgement; an lset
\* the store refuses throws and the catch answers SERVER_ERROR
DeleteLset(w) ==
  /\ ws[w].pc = "d_lset"
  /\ IF LSetOk(messages, ws[w].msg.roomHash, ws[w].i)
       THEN /\ messages' = LSet(messages, ws[w].msg.roomHash, ws[w].i, ws[w].msgData)
            /\ sent' = [x \in Conns |->
                          Broadcast(ws[w].c, ws[w].msg.roomHash, DeleteFrame(ws[w].msg),
                                    roomClients, FALSE)[x]
                          \o SendAll({ws[w].c}, AckFrame(0))[x]]
            /\ ws' = [ws EXCEPT ![w] = IdleWs]
            /\ lastRes' = Res("delete_message", ws[w].msg.roomHash, "OK", ws[w].msg)
       ELSE /\ EventReply(w, ws[w].c, ws[w].msg, "SERVER_ERROR")
            /\ UNCHANGED messages
  /\ UNCHANGED <<RelayFrame, rooms, members, roomClients, readyState, roomCache,
                 bg, nextMsgId, capCase>>

\* ---------------------------------------- message relay, cached variant
ROOM_CACHE_TTL == 5000
\* getCachedRoom: a hit is an entry that has not expired
CacheHitForever(h) == h \in DOMAIN roomCache
CacheHit(h) == h \in DOMAIN roomCache /\ roomCache[h].expiresAt > now
\* setCachedRoom
SetCachedRoom(cache, h, roomData) ==
  Put(cache, h, [roomData |-> roomData,
                 expiresAt |-> now + (ROOM_CACHE_TTL * TicksPerSec) \div 1000])

BgTask(kind, h) == [kind |-> kind, h |-> h, pc |-> "ttl", roomTtl |-> 0]

\* cached controller, a chat message once the room is known: the sadd of
\* the membership task is issued, the connection registered, the message
\* sent to every open connection of the room, the lpush of the log task
\* issued and the sender acknowledged; the two tasks go on by themselves
ChatRest(w, c, msg, roomData) ==
  LET h == msg.roomHash
      isNewMember == ~(h \in DOMAIN members /\ msg.senderId \in members[h].val)
  IN /\ nextMsgId <= MaxMsgs
     /\ members' = SAdd(members, h, msg.senderId)
     /\ roomClients' = Register(h, c)
     /\ messages' = LPush(messages, h, LogEntry(msg, nextMsgId))
     /\ nextMsgId' = nextMsgId + 1
     /\ bg' = bg \cup {BgTask("persist", h)}
                 \cup (IF isNewMember THEN {BgTask("member", h)} ELSE {})
     /\ Deliver(c, msg, nextMsgId, Register(h, c), TRUE)
     /\ capCase' = CapCase(w, msg, roomData.is_group)

\* handleMessage, cached controller, a chat message: the validation, the
\* look in the cache and, on a miss, the awaited get of the room
CachedChat(w, c, msg) ==
  /\ deployed.relay = "cached"
  /\ ws[w].pc = "idle"
  /\ readyState[c] = "open"
  /\ IF ChatValidation("cached", msg) # "OK"
       THEN /\ WsReply(w, c, msg.roomHash, ChatValidation("cached", msg))
            /\ capCase' = NoCase
            /\ UNCHANGED <<members, roomClients, messages, nextMsgId, bg, roomCache>>
     ELSE IF CacheHit(msg.roomHash)
       THEN /\ ChatRest(w, c, msg, roomCache[msg.roomHash].roomData)
            /\ UNCHANGED <<ws, roomCache>>
     ELSE /\ roomCache' = Del(roomCache, msg.roomHash)
          /\ ws' = [ws EXCEPT ![w] =
                      [pc |-> "cget", c |-> c, msg |-> msg,
                       found |-> Exists(rooms, msg.roomHash),
                       roomData |-> IF Exists(rooms, msg.roomHash)
                                      THEN rooms[msg.roomHash].val ELSE 0]]
          /\ capCase' = NoCase
          /\ lastRes' = NoRes /\ sent' = NoSent
          /\ UNCHANGED <<members, roomClients, messages, nextMsgId, bg>>
  /\ UNCHANGED <<RelayFrame, rooms, readyState>>

\* cached controller: after the get, ROOM_INVALID or the entry cached and
\* the rest of the handler
CachedChatGet(w) ==
  /\ ws[w].pc = "cget"
  /\ IF ~ws[w].found
       THEN /\ WsReply(w, ws[w].c, ws[w].msg.roomHash, "ROOM_INVALID")
            /\ UNCHANGED <<members, roomClients, messages, nextMsgId, bg,
                           roomCache, capCase>>
       ELSE /\ roomCache' = SetCachedRoom(roomCache, ws[w].msg.roomHash, ws[w].roomData)
            /\ ChatRest(w, ws[w].c, ws[w].msg, ws[w].roomData)
            /\ ws' = [ws EXCEPT ![w] = IdleWs]
  /\ UNCHANGED <<RelayFrame, rooms, readyState>>

\* cached controller, a join_room, file message or delete_message once
\* the room is known: the connection is registered and, but for a
\* join_room, the event sent to every open connection of the room; for a
\* file the lpush of the log task is issued, for a delete_message the
\* lrange of the tombstone task, which goes on to its lset when it finds
\* the entry; the sender is acknowledged
EventRest(w, c, msg) ==
  LET h == msg.roomHash
      list == IF h \in DOMAIN messages THEN messages[h].val ELSE <<>>
      i == FindEntry(list, msg)
  IN /\ roomClients' = Register(h, c)
     /\ IF msg.type = "file"
          THEN /\ nextMsgId <= MaxMsgs
               /\ messages' = LPush(messages, h, FileLogEntry(msg, nextMsgId))
               /\ nextMsgId' = nextMsgId + 1
               /\ bg' = bg \cup {BgTask("persist", h)}
        ELSE IF msg.type = "delete_message"
          THEN /\ bg' = bg \cup
                        (IF i = 0 THEN {}
                         ELSE {[kind |-> "tombstone", h |-> h, pc |-> "lset", i |-> i,
                                msgData |-> [list[i] EXCEPT !.deleted = TRUE]]})
               /\ UNCHANGED <<messages, nextMsgId>>
          ELSE UNCHANGED <<messages, nextMsgId, bg>>
     /\ sent' = [x \in Conns |->
                   (IF msg.type = "join_room" THEN <<>>
                    ELSE Broadcast(c, h, IF msg.type = "file" THEN FileFrame(msg)
                                         ELSE DeleteFrame(msg), Register(h, c), TRUE)[x])
                   \o SendAll({c}, AckFrame(0))[x]]
     /\ lastRes' = Res(msg.type, h, "OK", msg)

\* handleMessage, cached controller, a file message or delete_message:
\* the validation, the look in the cache and, on a miss, the awaited get
CachedEvent(w, c, msg) ==
  /\ deployed.relay = "cached"
  /\ ws[w].pc = "idle"
  /\ readyState[c] = "open"
  /\ capCase' = NoCase
  /\ IF EventValidation(msg) # "OK"
       THEN /\ EventReply(w, c, msg, EventValidation(msg))
            /\ UNCHANGED <<roomClients, messages, nextMsgId, bg, roomCache>>
     ELSE IF CacheHit(msg.roomHash)
       THEN /\ EventRest(w, c, msg)
            /\ UNCHANGED <<ws, roomCache>>
     ELSE /\ roomCache' = Del(roomCache, msg.roomHash)
          /\ ws' = [ws EXCEPT ![w] =
                      [pc |-> "ceget", c |-> c, msg |-> msg,
                       found |-> Exists(rooms, msg.roomHash),
                       roomData |-> IF Exists(rooms, msg.roomHash)
                                      THEN rooms[msg.roomHash].val ELSE 0]]
          /\ lastRes' = NoRes /\ sent' = NoSent
          /\ UNCHANGED <<roomClients, messages, nextMsgId, bg>>
  /\ UNCHANGED <<RelayFrame, rooms, members, readyState>>

\* cached controller, file message or delete_message: after the get,
\* ROOM_INVALID or the entry cached and the rest of the handler
CachedEventGet(w) ==
  /\ ws[w].pc = "ceget"
  /\ IF ~ws[w].found
       THEN /\ EventReply(w, ws[w].c, ws[w].msg, "ROOM_INVALID")
            /\ UNCHANGED <<roomClients, messages, nextMsgId, bg, roomCache>>
       ELSE /\ roomCache' = SetCachedRoom(roomCache, ws[w].msg.roomHash, ws[w].roomData)
            /\ EventRest(w, ws[w].c, ws[w].msg)
            /\ ws' = [ws EXCEPT ![w] = IdleWs]
  /\ UNCHANGED <<RelayFrame, rooms, members, readyState, capCase>>

\* the tombstone task of the cached controller: the lset at the index
\* found; an lset the store refuses rejects the promise of the task, which
\* has no catch and which nobody awaits
BgLset(t) ==
  /\ t \in bg
  /\ t.pc = "lset"
  /\ messages' = IF LSetOk(messages, t.h, t.i)
                   THEN LSet(messages, t.h, t.i, t.msgData) ELSE messages
  /\ bg' = bg \ {t}
  /\ lastRes' = IF LSetOk(messages, t.h, t.i) THEN NoRes
                ELSE Res("task", t.h, "UNHANDLED_REJECTION", 0)
  /\ sent' = NoSent
  /\ UNCHANGED <<RelayFrame, rooms, members, roomClients, readyState, roomCache,
                 ws, nextMsgId, capCase>>

\* a task of the cached controller: the ttl of the room
BgTtl(t) ==
  /\ t \in bg
  /\ t.pc = "ttl"
  /\ bg' = (bg \ {t}) \cup
             (IF RedisTtl(rooms, t.h, now) > 0
                THEN {[t EXCEPT !.pc = "expire", !.roomTtl = RedisTtl(rooms, t.h, now)]}
                ELSE {})
  /\ lastRes' = NoRes /\ sent' = NoSent
  /\ UNCHANGED <<RelayFrame, rooms, members, messages, roomClients, readyState,
                 roomCache, ws, nextMsgId, capCase>>

\* a task of the cached controller: the expire of its key
BgExpire(t) ==
  /\ t \in bg
  /\ t.pc = "expire"
  /\ IF t.kind = "member"
       THEN /\ members' = Expire(members, t.h, t.roomTtl, now)
            /\ UNCHANGED messages
       ELSE /\ messages' = Expire(messages, t.h, t.roomTtl, now)
            /\ UNCHANGED members
  /\ bg' = bg \ {t}
  /\ lastRes' = NoRes /\ sent' = NoSent
  /\ UNCHANGED <<RelayFrame, rooms, roomClients, readyState, roomCache, ws,
                 nextMsgId, capCase>>

\* ------------------------------------------------ room clean-up sweeps
RoomsListed(listing) == {o[2] : o \in listing}

\* startPeriodicCleanup, object-listing controller: ListObjectsV2 with
\* prefix rooms/ and the grouping by room hash
RoomSweepStart ==
  /\ deployed.room = "list"
  /\ sw.pc = "idle"
  /\ RoomObjects # {}
  /\ sw' = [IdleSweep EXCEPT !.pc = "rs_exists", !.todo = RoomsListed(RoomObjects),
                             !.del = RoomObjects]
  /\ lastRes' = NoRes /\ sent' = NoSent
  /\ UNCHANGED <<now, objects, pc, rq, nextFileId, deployed, dropSide, roomSide>>

RoomSweepNext(todo) ==
  IF todo = {} THEN IdleSweep ELSE [sw EXCEPT !.pc = "rs_exists", !.todo = todo, !.cur = 0]

\* object-listing controller: exists room:{roomHash} for one group
RoomSweepExists(h) ==
  /\ sw.pc = "rs_exists"
  /\ h \in sw.todo
  /\ sw' = IF Exists(rooms, h)
             THEN RoomSweepNext(sw.todo \ {h})
             ELSE [sw EXCEPT !.pc = "rs_delete", !.todo = sw.todo \ {h}, !.cur = h]
  /\ lastRes' = NoRes /\ sent' = NoSent
  /\ UNCHANGED <<now, objects, pc, rq, nextFileId, deployed, dropSide, roomSide>>

\* object-listing controller: DeleteObjects of the group; when it throws
\* the catch around the sweep ends the sweep
RoomSweepDelete(fail) ==
  /\ sw.pc = "rs_delete"
  /\ objects' = IF fail THEN objects
                ELSE objects \ {o \in sw.del : o[2] = sw.cur}
  /\ sw' = IF fail THEN IdleSweep ELSE RoomSweepNext(sw.todo)
  /\ lastRes' = NoRes /\ sent' = NoSent
  /\ UNCHANGED <<now, pc, rq, nextFileId, deployed, dropSide, roomSide>>

\* startPeriodicCleanup, metadata-scan controller: keys("file:*:*")
MetaSweepStart ==
  /\ deployed.room = "scan"
  /\ sw.pc = "idle"
  /\ DOMAIN files # {}
  /\ sw' = [IdleSweep EXCEPT !.pc = "ms_get", !.todo = DOMAIN files]
  /\ lastRes' = NoRes /\ sent' = NoSent
  /\ UNCHANGED <<now, objects, pc, rq, nextFileId, deployed, dropSide, roomSide>>

MetaSweepNext(todo) ==
  IF todo = {} THEN IdleSweep ELSE [IdleSweep EXCEPT !.pc = "ms_get", !.todo = todo]

\* metadata-scan controller: get of one key found; only a key that has
\* gone since the scan is looked at further
MetaSweepGet(k) ==
  /\ sw.pc = "ms_get"
  /\ k \in sw.todo
  /\ sw' = IF k \in DOMAIN files
             THEN MetaSweepNext(sw.todo \ {k})
             ELSE [sw EXCEPT !.pc = "ms_exists", !.todo = sw.todo \ {k}, !.cur = k[1]]
  /\ lastRes' = NoRes /\ sent' = NoSent
  /\ UNCHANGED <<now, objects, pc, rq, nextFileId, deployed, dropSide, roomSide>>

\* metadata-scan controller: exists room:{roomHash}
MetaSweepExists ==
  /\ sw.pc = "ms_exists"
  /\ sw' = IF Exists(rooms, sw.cur)
             THEN MetaSweepNext(sw.todo)
             ELSE [sw EXCEPT !.pc = "ms_keys"]
  /\ lastRes' = NoRes /\ sent' = NoSent
  /\ UNCHANGED <<now, objects, pc, rq, nextFileId, deployed, dropSide, roomSide>>

\* metadata-scan controller: cleanupRoomFiles(roomHash), the keys and gets
MetaSweepCleanupKeys ==
  /\ sw.pc = "ms_keys"
  /\ sw' = IF FileKeysOf(sw.cur) = {} THEN MetaSweepNext(sw.todo)
           ELSE [sw EXCEPT !.pc = IF S3KeysOf(FileKeysOf(sw.cur)) = {}
                                    THEN "ms_delkeys" ELSE "ms_delobj",
                           !.del = S3KeysOf(FileKeysOf(sw.cur)),
                           !.cur = [h |-> sw.cur, keys |-> FileKeysOf(sw.cur)]]
  /\ lastRes' = NoRes /\ sent' = NoSent
  /\ UNCHANGED <<now, objects, pc, rq, nextFileId, deployed, dropSide, roomSide>>

\* metadata-scan controller: cleanupRoomFiles(roomHash), DeleteObjects
MetaSweepCleanupDeleteObjects(fail) ==
  /\ sw.pc = "ms_delobj"
  /\ objects' = IF fail THEN objects ELSE objects \ sw.del
  /\ sw' = IF fail THEN MetaSweepNext(sw.todo) ELSE [sw EXCEPT !.pc = "ms_delkeys"]
  /\ lastRes' = NoRes /\ sent' = NoSent
  /\ UNCHANGED <<now, pc, rq, nextFileId, deployed, dropSide, roomSide>>

\* metadata-scan controller: cleanupRoomFiles(roomHash), del of the keys
MetaSweepCleanupDeleteKeys ==
  /\ sw.pc = "ms_delkeys"
  /\ files' = [k \in DOMAIN files \ sw.cur.keys |-> files[k]]
  /\ sw' = MetaSweepNext(sw.todo)
  /\ lastRes' = NoRes /\ sent' = NoSent
  /\ UNCHANGED <<now, objects, pc, rq, nextFileId, deployed, dropSide, rooms, members,
                 messages, relaySide>>

DropObjects == {o \in objects : o[1] = "file-drops"}

\* cleanupExpiredDrops, object-listing strategy: ListObjectsV2
ListSweepStart ==
  /\ deployed.drop = "list"
  /\ sw.pc = "idle"
  /\ sw' = IF DropObjects = {} THEN IdleSweep
           ELSE [IdleSweep EXCEPT !.pc = "ls_check", !.todo = DropObjects]
  /\ lastRes' = NoRes /\ sent' = NoSent
  /\ UNCHANGED <<now, drops, objects, pc, rq, nextFileId, deployed, delivered, everDelivered, roomSide>>

\* does some session under the object's hash prefix name this object
\* (the SCAN MATCH drop:{prefix}* loop with the get of every key found);
\* a failing scan leaves redisKeyExists false
SessionNames(o, scanFails) ==
  /\ ~scanFails
  /\ \E k \in DOMAIN drops : Prefix16(k) = o[2] /\ drops[k].val.s3Key = o

\* object-listing strategy: the check of one listed object
ListSweepCheck(o, scanFails) ==
  /\ sw.pc = "ls_check"
  /\ o \in sw.todo
  /\ LET del == IF SessionNames(o, scanFails) THEN sw.del ELSE sw.del \cup {o}
         todo == sw.todo \ {o}
     IN sw' = IF todo # {} THEN [sw EXCEPT !.todo = todo, !.del = del]
              ELSE IF del # {} THEN [sw EXCEPT !.pc = "ls_delete", !.todo = {}, !.del = del]
              ELSE IdleSweep
  /\ lastRes' = NoRes /\ sent' = NoSent
  /\ UNCHANGED <<now, drops, objects, pc, rq, nextFileId, deployed, delivered, everDelivered, roomSide>>

\* object-listing strategy: DeleteObject of one orphan; a failure is logged
ListSweepDelete(o, fail) ==
  /\ sw.pc = "ls_delete"
  /\ o \in sw.del
  /\ objects' = IF fail THEN objects ELSE objects \ {o}
  /\ sw' = IF sw.del = {o} THEN IdleSweep ELSE [sw EXCEPT !.del = sw.del \ {o}]
  /\ lastRes' = NoRes /\ sent' = NoSent
  /\ UNCHANGED <<now, drops, pc, rq, nextFileId, deployed, delivered, everDelivered, roomSide>>

\* cleanupExpiredDrops, session-scan strategy: keys('drop:*')
ScanSweepStart ==
  /\ deployed.drop = "scan"
  /\ sw.pc = "idle"
  /\ sw' = IF DOMAIN drops = {} THEN IdleSweep
           ELSE [IdleSweep EXCEPT !.pc = "sc_get", !.todo = DOMAIN drops]
  /\ lastRes' = NoRes /\ sent' = NoSent
  /\ UNCHANGED <<now, drops, objects, pc, rq, nextFileId, deployed, delivered, everDelivered, roomSide>>

ScanSweepNext(todo) ==
  IF todo = {} THEN IdleSweep ELSE [IdleSweep EXCEPT !.pc = "sc_get", !.todo = todo]

\* session-scan strategy: get of one session and the expiry test
ScanSweepGet(k) ==
  /\ sw.pc = "sc_get"
  /\ k \in sw.todo
  /\ sw' = IF k \in DOMAIN drops /\ DropExpired(drops[k].val, now)
             THEN [sw EXCEPT !.pc = IF drops[k].val.s3Key # NoKey
                                      THEN "sc_dels3" ELSE "sc_delkey",
                             !.todo = sw.todo \ {k},
                             !.cur = [key |-> k, s3Key |-> drops[k].val.s3Key]]
             ELSE ScanSweepNext(sw.todo \ {k})
  /\ lastRes' = NoRes /\ sent' = NoSent
  /\ UNCHANGED <<now, drops, objects, pc, rq, nextFileId, deployed, delivered, everDelivered, roomSide>>

\* session-scan strategy: DeleteObject of the expired session's object
ScanSweepDeleteObject(fail) ==
  /\ sw.pc = "sc_dels3"
  /\ objects' = IF fail THEN objects ELSE objects \ {sw.cur.s3Key}
  /\ sw' = [sw EXCEPT !.pc = "sc_delkey"]
  /\ lastRes' = NoRes /\ sent' = NoSent
  /\ UNCHANGED <<now, drops, pc, rq, nextFileId, deployed, delivered, everDelivered, roomSide>>

\* session-scan strategy: del of the expired session's key
ScanSweepDeleteKey(fail) ==
  /\ sw.pc = "sc_delkey"
  /\ drops' = IF fail THEN drops ELSE Del(drops, sw.cur.key)
  /\ sw' = ScanSweepNext(sw.todo)
  /\ lastRes' = NoRes /\ sent' = NoSent
  /\ UNCHANGED <<now, objects, pc, rq, nextFileId, deployed, delivered, everDelivered, roomSide>>

\* ------------------------------------------------------------- the clock
\* time passes; the store drops every key whose expiry is reached
TickTo(limit) ==
  /\ now < limit
  /\ now' = now + 1
  /\ drops' = Live(drops, now + 1)
  /\ rooms' = Live(rooms, now + 1)
  /\ members' = Live(members, now + 1)
  /\ messages' = Live(messages, now + 1)
  /\ files' = Live(files, now + 1)
  /\ lastRes' = NoRes /\ sent' = NoSent
  /\ UNCHANGED <<objects, pc, rq, nextFileId, sw, deployed, delivered, everDelivered,
               relaySide>>

Tick == TickTo(MaxTime)
\* the Room Cache's time to live in ticks, and a clock that runs past it
CacheTicks == (ROOM_CACHE_TTL * TicksPerSec) \div 1000
LongTick == TickTo(CacheTicks + MaxTime \div 2)

\* ------------------------------------------------------- specifications
\* the process has started
BootWith(left) ==
  /\ now = 0
  /\ drops = EmptyStore
  /\ objects = left
  /\ pc = [p \in Slots |-> "idle"]
  /\ rq = [p \in Slots |-> IdleRq]
  /\ lastRes = NoRes
  /\ nextFileId = 1
  /\ sw = IdleSweep
  /\ delivered = {}
  /\ everDelivered = {}
  /\ members = EmptyStore
  /\ messages = EmptyStore
  /\ files = EmptyStore
  /\ roomClients = EmptyStore
  /\ nextMsgId = 1
  /\ capCase = NoCase
  /\ sent = NoSent
  /\ roomCache = EmptyStore
  /\ ws = [w \in WsSlots |-> IdleWs]
  /\ bg = {}

Boot == BootWith({})

\* no room made and no connection yet
Init ==
  /\ Boot
  /\ rooms = EmptyStore
  /\ readyState = [c \in Conns |-> "none"]

\* a room has just been made by createRoom and the clients are connected
InitServing ==
  /\ Boot
  /\ rooms = SetEx(EmptyStore, GoodHash,
                   NewRoom(GoodCode, Salt, FALSE, ShortExpiry, Creator, 0), ShortExpiry, 0)
  /\ readyState = [c \in Conns |-> "open"]

\* either file-drop controller may be the one deployed
InitDrop ==
  /\ Init
  /\ deployed \in [drop : {"list", "scan"}, room : {"list"}, relay : {"sync"}]

DropStart(p) ==
  \/ \E h \in DropHashes, d \in Durations : CreateFileDrop(p, h, d)
  \/ \E h \in DropHashes, f \in FileInputs : UploadFileDrop(p, h, f)
  \/ \E h \in DropHashes : ValidateDropCode(p, h)
  \/ \E h \in DropHashes, fileId \in 1..MaxFileId : DownloadFileDrop(p, h, fileId)

DropStep(p) ==
  \/ CreateFileDropSet(p)
  \/ UploadFileDropPut(p)
  \/ UploadFileDropSet(p)
  \/ DownloadFileDropGet(p)
  \/ DownloadFileDropSet(p)
  \/ StreamFinish(p)
  \/ \E fail \in BOOLEAN : StreamDelete(p, fail)
  \/ StreamError(p)

DropSweep ==
  \/ ListSweepStart
  \/ \E o \in sw.todo, f \in BOOLEAN : ListSweepCheck(o, f)
  \/ \E o \in sw.del, f \in BOOLEAN : ListSweepDelete(o, f)
  \/ ScanSweepStart
  \/ \E k \in sw.todo : ScanSweepGet(k)
  \/ \E f \in BOOLEAN : ScanSweepDeleteObject(f)
  \/ \E f \in BOOLEAN : ScanSweepDeleteKey(f)

\* file drops, requests one after the other (a request is over when its
\* stream callbacks have run); the sweeps and the clock run alongside
NextDropSeq ==
  \/ AllIdle /\ DropStart(FirstSlot)
  \/ DropStep(FirstSlot)
  \/ DropSweep
  \/ Tick
SpecDropSeq == InitDrop /\ [][NextDropSeq]_vars

\* every request in flight gets its answers, the sweep's timer keeps firing
\* and every step of a sweep gets its answer, the clock runs, and the
\* object store does not fail for ever
SpecDropFair ==
  /\ SpecDropSeq
  /\ WF_pc(DropStep(FirstSlot))
  /\ WF_<<sw.pc, sw.todo, sw.del>>(DropSweep)
  /\ WF_now(Tick)
  /\ SF_objects(\E o \in sw.del : ListSweepDelete(o, FALSE))
  /\ SF_objects(ScanSweepDeleteObject(FALSE))
  /\ SF_objects(StreamDelete(FirstSlot, FALSE))

\* file drops made with every kind of duration, uploaded to and downloaded,
\* requests one after the other
CreateStart(p) ==
  \/ \E h \in DropHashes, d \in CreateDurations : CreateFileDrop(p, h, d)
  \/ \E h \in DropHashes, f \in FileInputs : UploadFileDrop(p, h, f)
  \/ \E h \in DropHashes, fileId \in 1..MaxFileId : DownloadFileDrop(p, h, fileId)
NextCreate ==
  \/ AllIdle /\ CreateStart(FirstSlot)
  \/ DropStep(FirstSlot)
  \/ Tick
SpecCreate == InitDrop /\ [][NextCreate]_vars

\* file drops, requests overlapping
NextDrop ==
  \/ \E p \in Slots : DropStart(p) \/ DropStep(p)
  \/ Tick
SpecDrop == InitDrop /\ [][NextDrop]_vars

\* a drop is made and uploaded to, then downloads of it overlap
NextRace ==
  \/ /\ AllIdle
     /\ \/ \E h \in DropHashes, d \in Durations : CreateFileDrop(FirstSlot, h, d)
        \/ \E h \in DropHashes, f \in FileInputs : UploadFileDrop(FirstSlot, h, f)
  \/ \E p \in Slots, h \in DropHashes, fileId \in 1..MaxFileId :
       DownloadFileDrop(p, h, fileId)
  \/ \E p \in Slots : DropStep(p)
  \/ Tick
SpecRace == InitDrop /\ [][NextRace]_vars

\* a drop is made, then uploads to it overlap, and downloads follow one
\* at a time
NextUploadRace ==
  \/ /\ AllIdle
     /\ \/ \E h \in DropHashes, d \in Durations : CreateFileDrop(FirstSlot, h, d)
        \/ \E h \in DropHashes, fileId \in 1..MaxFileId :
             DownloadFileDrop(FirstSlot, h, fileId)
  \/ \E p \in Slots, h \in DropHashes, f \in FileInputs : UploadFileDrop(p, h, f)
  \/ \E p \in Slots : DropStep(p)
  \/ Tick
SpecUploadRace == InitDrop /\ [][NextUploadRace]_vars

\* either room controller may be the one deployed
InitRoom ==
  /\ Init
  /\ deployed \in [drop : {"list"}, room : {"list", "scan"}, relay : {"sync"}]

RoomStart(p) ==
  \/ \E h \in RoomHashes, e \in Expiries \cup {0, -1}, u \in Users :
        CreateRoom(p, h, e, FALSE, u)
  \/ \E code \in CodeInputs : JoinRoom(p, code)
  \/ \E h \in RoomHashes : GetRoomInfo(p, h)
  \/ \E h \in RoomHashes, u \in Users : BurnRoom(p, h, u)
  \/ \E h \in RoomHashes, f \in FileInputs : \E hmac \in HmacInputs(f) :
        UploadImage(p, h, f, hmac)

RoomStep(p) ==
  \/ CreateRoomSet(p)
  \/ JoinRoomTtl(p)
  \/ JoinRoomGet(p)
  \/ CleanupKeys(p)
  \/ \E fail \in BOOLEAN : CleanupDeleteObjects(p, fail)
  \/ CleanupDeleteKeys(p)
  \/ BurnDelRoom(p)
  \/ BurnDelMembers(p)
  \/ BurnDelMessages(p)
  \/ BurnBroadcast(p)
  \/ UploadImagePut(p)
  \/ UploadImageSet(p)

RoomSweep ==
  \/ RoomSweepStart
  \/ \E h \in sw.todo : RoomSweepExists(h)
  \/ \E f \in BOOLEAN : RoomSweepDelete(f)
  \/ MetaSweepStart
  \/ \E k \in sw.todo : MetaSweepGet(k)
  \/ MetaSweepExists
  \/ MetaSweepCleanupKeys
  \/ \E f \in BOOLEAN : MetaSweepCleanupDeleteObjects(f)
  \/ MetaSweepCleanupDeleteKeys

\* createRoom requests for the same hash, overlapping, and the clock
NextRoomRace ==
  \/ \E p \in Slots, h \in RoomHashes, e \in Expiries, g \in BOOLEAN, u \in Users :
       CreateRoom(p, h, e, g, u)
  \/ \E p \in Slots : CreateRoomSet(p)
  \/ Tick
SpecRoomRace == InitRoom /\ [][NextRoomRace]_vars

\* rooms over HTTP, requests one after the other, and the clock
NextRoomSeq ==
  \/ AllIdle /\ RoomStart(FirstSlot)
  \/ RoomStep(FirstSlot)
  \/ Tick
SpecRoomSeq == InitRoom /\ [][NextRoomSeq]_vars

\* the requests that store and remove rooms and their files
FilesStart(p) ==
  \/ \E h \in RoomHashes, e \in Expiries, u \in Users : CreateRoom(p, h, e, FALSE, u)
  \/ \E h \in RoomHashes, u \in Users : BurnRoom(p, h, u)
  \/ \E h \in RoomHashes, f \in FileInputs : \E hmac \in HmacInputs(f) :
        UploadImage(p, h, f, hmac)

FilesStep(p) ==
  \/ CreateRoomSet(p)
  \/ CleanupKeys(p)
  \/ \E fail \in BOOLEAN : CleanupDeleteObjects(p, fail)
  \/ CleanupDeleteKeys(p)
  \/ BurnDelRoom(p)
  \/ BurnDelMembers(p)
  \/ BurnDelMessages(p)
  \/ BurnBroadcast(p)
  \/ UploadImagePut(p)
  \/ UploadImageSet(p)

\* the room sweep alongside the requests that store and remove files
NextRoomSweep ==
  \/ AllIdle /\ FilesStart(FirstSlot)
  \/ FilesStep(FirstSlot)
  \/ RoomSweep
  \/ Tick
SpecRoomSweep == InitRoom /\ [][NextRoomSweep]_vars

\* the object-listing room sweep alongside creations and uploads, with an
\* object in the store that an earlier room, now expired, has left under
\* its own prefix
OrphanObject == RoomObjectKey(GoodHash + 1, MaxFileId + 1)
InitOrphan ==
  /\ BootWith({OrphanObject})
  /\ rooms = EmptyStore
  /\ readyState = [c \in Conns |-> "none"]
  /\ deployed \in [drop : {"list"}, room : {"list"}, relay : {"sync"}]
NextOrphan ==
  \/ AllIdle /\ \E h \in RoomHashes, e \in Expiries, u \in Users :
                  CreateRoom(FirstSlot, h, e, FALSE, u)
  \/ AllIdle /\ \E h \in RoomHashes, f \in FileInputs : \E hmac \in HmacInputs(f) :
                  UploadImage(FirstSlot, h, f, hmac)
  \/ CreateRoomSet(FirstSlot)
  \/ UploadImagePut(FirstSlot)
  \/ UploadImageSet(FirstSlot)
  \/ RoomSweepStart
  \/ \E h \in sw.todo : RoomSweepExists(h)
  \/ \E f \in BOOLEAN : RoomSweepDelete(f)
  \/ Tick
SpecOrphan == InitOrphan /\ [][NextOrphan]_vars

\* every request in flight gets its answers, the interval timer keeps
\* firing and every step of a sweep gets its answer; the object store does
\* not fail for ever
SpecRoomSweepFair ==
  /\ SpecRoomSweep
  /\ WF_vars(FilesStep(FirstSlot))
  /\ WF_vars(RoomSweep)
  /\ SF_vars(RoomSweepDelete(FALSE))
  /\ SF_vars(MetaSweepCleanupDeleteObjects(FALSE))

\* either message controller may be the one deployed
InitRelay ==
  /\ InitServing
  /\ deployed \in [drop : {"list"}, room : {"list"}, relay : {"sync", "cached"}]

FirstWs == CHOOSE w \in WsSlots : \A v \in WsSlots : w <= v

WsStart(w) ==
  \E c \in Conns, h \in RoomHashes : \E msg \in ChatInputs(h) :
     Chat(w, c, msg) \/ CachedChat(w, c, msg)

WsStep(w) ==
  \/ ChatSadd(w)
  \/ ChatScard(w)
  \/ ChatCapCheck(w)
  \/ ChatMembersExpire(w)
  \/ ChatLpush(w)
  \/ ChatLogTtl(w)
  \/ ChatLogExpire(w)
  \/ ChatDeliver(w)
  \/ CachedChatGet(w)

BgStep == \E t \in bg : BgTtl(t) \/ BgExpire(t)

\* the relay with one message handled at a time (a message is taken up
\* when no handler and no task is in flight) and the clock
NextRelaySeq ==
  \/ Quiet /\ WsStart(FirstWs)
  \/ WsStep(FirstWs)
  \/ BgStep
  \/ Tick
SpecRelaySeq == InitRelay /\ [][NextRelaySeq]_vars

\* joinRoom of a room without files
JoinStep(p) ==
  \/ JoinRoomTtl(p)
  \/ JoinRoomGet(p)
  \/ CleanupKeys(p)

\* the chat frames of one client, well-formed and not
FirstSender == CHOOSE s \in Senders : \A x \in Senders : s[2] <= x[2]
OneSenderStart(w) ==
  \E c \in Conns, h \in RoomHashes :
    \E msg \in {m \in ChatInputs(h) : m.senderId \notin Senders \ {FirstSender}} :
       Chat(w, c, msg) \/ CachedChat(w, c, msg)

\* what arrives at the server from outside, one request or frame at a time
NextFrontDoor ==
  \/ AllIdle /\ Quiet /\ \E code \in CodeInputs : JoinRoom(FirstSlot, code)
  \/ JoinStep(FirstSlot)
  \/ AllIdle /\ Quiet /\ OneSenderStart(FirstWs)
  \/ WsStep(FirstWs)
  \/ BgStep
  \/ Tick
SpecFrontDoor == InitRelay /\ [][NextFrontDoor]_vars

\* a room has just been made; files are uploaded to it and downloaded
InitFiles ==
  /\ InitServing
  /\ deployed \in [drop : {"list"}, room : {"list"}, relay : {"sync"}]

TripStep(p) ==
  \/ UploadImagePut(p)
  \/ UploadImageSet(p)
  \/ DownloadFileGet(p)
  \/ DownloadFileObject(p)

\* uploads and downloads of room files, one request at a time
NextFileTrip ==
  \/ AllIdle /\ \E h \in RoomHashes, f \in NamedFileInputs :
        \E hmac \in HmacInputs(f) : UploadImage(FirstSlot, h, f, hmac)
  \/ AllIdle /\ \E h \in RoomHashes, fileId \in 1..MaxFileId :
        DownloadFile(FirstSlot, h, fileId)
  \/ TripStep(FirstSlot)
  \/ Tick
SpecFileTrip == InitFiles /\ [][NextFileTrip]_vars

\* the frames of one client, chat frames and text frames
NextFrames ==
  \/ Quiet /\ OneSenderStart(FirstWs)
  \/ WsStep(FirstWs)
  \/ BgStep
  \/ \E c \in Conns, raw \in TextFrames : TextFrame(c, raw)
  \/ Tick
SpecFrames == InitRelay /\ [][NextFrames]_vars

\* the chat, file and delete_message frames of two clients, each on its
\* connection
SecondSender == CHOOSE s \in Senders \ {FirstSender} :
                  \A x \in Senders \ {FirstSender} : s[2] <= x[2]
ConnOf(s) == IF s = FirstSender THEN 1 ELSE 2
EventInputs(h, s) ==
  {GoodChat(h, s), GoodFile(h, s), [GoodFile(h, s) EXCEPT !.fileId = Missing]}
    \cup {GoodDelete(h, id, s) : id \in 1..2}
EventStart(w) ==
  \E h \in RoomHashes, s \in {FirstSender, SecondSender} :
    \E msg \in EventInputs(h, s) :
      \/ msg.type = "chat" /\ (Chat(w, ConnOf(s), msg) \/ CachedChat(w, ConnOf(s), msg))
      \/ msg.type = "file" /\ FileMsg(w, ConnOf(s), msg)
      \/ msg.type = "delete_message" /\ DeleteMsg(w, ConnOf(s), msg)
      \/ msg.type # "chat" /\ CachedEvent(w, ConnOf(s), msg)

EventStep(w) ==
  \/ WsStep(w)
  \/ FileLpush(w)
  \/ FileLogTtl(w)
  \/ FileLogExpire(w)
  \/ DeleteLrange(w)
  \/ DeleteLset(w)
  \/ CachedEventGet(w)

\* chat messages of one sender handled one at a time, and deletions by
\* the same sender handled one at a time alongside them; to the cached
\* controller a deletion is sent when no background task is pending
LastWs == CHOOSE w \in WsSlots : \A v \in WsSlots : w >= v
TombStart ==
  \E h \in RoomHashes :
    \/ Chat(FirstWs, 1, GoodChat(h, FirstSender))
    \/ CachedChat(FirstWs, 1, GoodChat(h, FirstSender))
    \/ \E id \in 1..2 :
         \/ DeleteMsg(LastWs, 1, GoodDelete(h, id, FirstSender))
         \/ bg = {} /\ CachedEvent(LastWs, 1, GoodDelete(h, id, FirstSender))
TombStep(w) ==
  \/ WsStep(w)
  \/ DeleteLrange(w)
  \/ DeleteLset(w)
  \/ CachedEventGet(w)
NextTombstone ==
  \/ TombStart
  \/ \E w \in WsSlots : TombStep(w)
  \/ BgStep
  \/ \E t \in bg : BgLset(t)
  \/ Tick
SpecTombstone == InitRelay /\ [][NextTombstone]_vars

\* a room has just been made and no client is connected yet
InitDoor ==
  /\ Boot
  /\ rooms = SetEx(EmptyStore, GoodHash,
                   NewRoom(GoodCode, Salt, FALSE, ShortExpiry, Creator, 0), ShortExpiry, 0)
  /\ readyState = [c \in Conns |-> "none"]
  /\ deployed \in [drop : {"list"}, room : {"list"}, relay : {"sync", "cached"}]
\* clients connect, send chat messages (one handled at a time) and
\* disconnect at any moment
NextDoor ==
  \/ \E c \in Conns : Connect(c) \/ Close(c)
  \/ /\ Quiet
     /\ \E h \in RoomHashes, s \in {FirstSender, SecondSender} :
          \/ Chat(FirstWs, ConnOf(s), GoodChat(h, s))
          \/ CachedChat(FirstWs, ConnOf(s), GoodChat(h, s))
  \/ WsStep(FirstWs)
  \/ BgStep
  \/ Tick
SpecDoor == InitDoor /\ [][NextDoor]_vars

\* no room is left and the clients have just connected: one of them goes
\* on sending chat messages (one handled at a time), which are refused,
\* and answering pings, until the connection timers fire
InitHeartbeat ==
  /\ Boot
  /\ rooms = EmptyStore
  /\ readyState = [c \in Conns |-> "open"]
  /\ deployed \in [drop : {"list"}, room : {"list"}, relay : {"sync", "cached"}]
NextHeartbeat ==
  \/ /\ Quiet
     /\ \E h \in RoomHashes :
          \/ Chat(FirstWs, ConnOf(FirstSender), GoodChat(h, FirstSender))
          \/ CachedChat(FirstWs, ConnOf(FirstSender), GoodChat(h, FirstSender))
  \/ CachedChatGet(FirstWs)
  \/ Pong(ConnOf(FirstSender))
  \/ \E c \in Conns : ConnectionTimeout(c, 0)
  \/ TickTo(TimeoutTicks)
SpecHeartbeat == InitHeartbeat /\ [][NextHeartbeat]_vars

\* chat messages of two senders handled one at a time, and those of the
\* other senders handled one at a time alongside them
CapStart(w, s) ==
  \E h \in RoomHashes : Chat(w, 1, GoodChat(h, s)) \/ CachedChat(w, 1, GoodChat(h, s))
NextCap ==
  \/ \E s \in {FirstSender, SecondSender} : CapStart(FirstWs, s)
  \/ \E s \in Senders \ {FirstSender, SecondSender} : CapStart(LastWs, s)
  \/ \E w \in WsSlots : WsStep(w)
  \/ BgStep
  \/ Tick
SpecCap == InitRelay /\ [][NextCap]_vars

\* two frames of one connection: the first is taken up when no handler is
\* in flight, the second (a chat message or a frame without hmac) arrives
\* while the handler of the first is waiting for the store
NextOrder ==
  \/ /\ AllWsIdle
     /\ \E h \in RoomHashes :
          \/ Chat(FirstWs, ConnOf(FirstSender), GoodChat(h, FirstSender))
          \/ CachedChat(FirstWs, ConnOf(FirstSender), GoodChat(h, FirstSender))
  \/ /\ ws[FirstWs].pc # "idle"
     /\ \E h \in RoomHashes :
          \E msg \in {GoodChat(h, FirstSender),
                      [GoodChat(h, FirstSender) EXCEPT !.hmac = Missing]} :
            \/ Chat(LastWs, ConnOf(FirstSender), msg)
            \/ CachedChat(LastWs, ConnOf(FirstSender), msg)
  \/ \E w \in WsSlots : WsStep(w)
  \/ BgStep
  \/ Tick
SpecOrder == InitRelay /\ [][NextOrder]_vars

\* the relay of chat, file and delete_message frames, one frame handled
\* at a time, and the clock
NextEvents ==
  \/ Quiet /\ EventStart(FirstWs)
  \/ EventStep(FirstWs)
  \/ BgStep
  \/ \E t \in bg : BgLset(t)
  \/ Tick
SpecEvents == InitRelay /\ [][NextEvents]_vars

\* getRoomMessages of a room without files
MessagesStep(p) ==
  \/ GetRoomMessagesLlen(p)
  \/ GetRoomMessagesLrange(p)
  \/ CleanupKeys(p)

\* pages of the log read while one client writes to it, one request or
\* frame at a time
NextMessages ==
  \/ AllIdle /\ Quiet /\ \E h \in RoomHashes, page \in Pages, limit \in Limits :
        GetRoomMessages(FirstSlot, h, page, limit)
  \/ MessagesStep(FirstSlot)
  \/ AllIdle /\ Quiet /\ OneSenderStart(FirstWs)
  \/ WsStep(FirstWs)
  \/ BgStep
  \/ Tick
SpecMessages == InitRelay /\ [][NextMessages]_vars

\* burnRoom of a room without files: cleanupRoomFiles finds no key
BurnStep(p) ==
  \/ BurnDelRoom(p)
  \/ BurnDelMembers(p)
  \/ BurnDelMessages(p)
  \/ CleanupKeys(p)
  \/ BurnBroadcast(p)

\* a chat frame that passes validation arrives
ValidChatStart(w) ==
  \E c \in Conns, h \in RoomHashes, s \in Senders :
     Chat(w, c, GoodChat(h, s)) \/ CachedChat(w, c, GoodChat(h, s))

\* one burnRoom at a time alongside the relay with one message at a time
NextBurnRelay ==
  \/ AllIdle /\ \E h \in RoomHashes, u \in Users : BurnRoom(FirstSlot, h, u)
  \/ BurnStep(FirstSlot)
  \/ Quiet /\ ValidChatStart(FirstWs)
  \/ WsStep(FirstWs)
  \/ BgStep
  \/ Tick
SpecBurnRelay == InitRelay /\ [][NextBurnRelay]_vars

\* the cached controller is the one deployed
InitCache == InitServing /\ deployed = [drop |-> "list", room |-> "list", relay |-> "cached"]
CacheInputs(h, s) ==
  {GoodJoin(h, s), GoodChat(h, s), GoodFile(h, s), GoodDelete(h, 1, s)}
\* frames of one sender on its connection to the cached controller, one
\* handled at a time, a burn by the creator, and a clock that runs past
\* the Room Cache's time to live
NextCache ==
  \/ /\ Quiet
     /\ \E h \in RoomHashes : \E msg \in CacheInputs(h, FirstSender) :
          \/ msg.type = "chat" /\ CachedChat(FirstWs, ConnOf(FirstSender), msg)
          \/ msg.type # "chat" /\ CachedEvent(FirstWs, ConnOf(FirstSender), msg)
  \/ CachedChatGet(FirstWs)
  \/ CachedEventGet(FirstWs)
  \/ BgStep
  \/ \E t \in bg : BgLset(t)
  \/ AllIdle /\ \E h \in RoomHashes : BurnRoom(FirstSlot, h, Creator)
  \/ BurnStep(FirstSlot)
  \/ LongTick
SpecCache == InitCache /\ [][NextCache]_vars

\* ------------------------------------------------------------ claims
DropFailures == {"FILE_ALREADY_DOWNLOADED", "DROP_EXPIRED", "DROP_NOT_FOUND"}

\* C1 as stated: once a download of a drop hash has been streamed to its
\* end, every later validate or download for that hash is answered with
\* FILE_ALREADY_DOWNLOADED, DROP_EXPIRED or DROP_NOT_FOUND, for ever.
C1_OneTimeForEver ==
  (lastRes.op \in {"validate", "download"} /\ lastRes.h \in everDelivered)
     => lastRes.code \in DropFailures

\* C1 amended: the same, until a later createFileDrop for the hash succeeds
\* (which it can once the delivered session has expired).
C1_OneTimeDelivery ==
  (lastRes.op \in {"validate", "download"} /\ lastRes.h \in delivered)
     => lastRes.code \in DropFailures

C1_Witness ==
  /\ lastRes.op \in {"validate", "download"}
  /\ lastRes.h \in delivered
  /\ lastRes.code = "FILE_ALREADY_DOWNLOADED"

\* C2: a session stored with downloaded = true is never stored with
\* downloaded = false afterwards, and no upload or download for its hash
\* succeeds while it is stored so.
C2_DownloadedTerminal ==
  [][\A h \in DOMAIN drops : drops[h].val.downloaded =>
        /\ h \in DOMAIN drops' => drops'[h].val.downloaded
        /\ ~(/\ lastRes'.h = h
             /\ lastRes'.op \in {"upload", "download"}
             /\ lastRes'.code \in {"OK", "STREAMING"})]_vars
\* the metadata key that owns an object still exists: the room key of a
\* room object, a session that names a file-drop object
OwnerExists(o) ==
  IF o[1] = "rooms" THEN o[2] \in DOMAIN rooms
  ELSE \E k \in DOMAIN drops : drops[k].val.s3Key = o

\* C3: no step of a clean-up sweep deletes an object while the room key,
\* respectively the drop session, that owns the object exists in the
\* store, also when a scan of the store fails.
C3_ReconcilerSafety ==
  [][sw' # sw => \A o \in objects \ objects' : ~OwnerExists(o)]_vars
\* C4: a chat message from a further sender that finds the membership set
\* of the room full, with no other handler or task in flight, is answered
\* ROOM_FULL, is sent to no connection, is not put on the log, and the
\* membership set is as it was once the handler is over.
C4_MembershipCap ==
  capCase # NoCase =>
    /\ lastRes.op = "chat" => lastRes.code = "ROOM_FULL"
    /\ \A c \in Conns : \A i \in 1..Len(sent[c]) :
          sent[c][i].type = "chat" => sent[c][i].msgId < capCase.msgId
    /\ capCase.h \in DOMAIN messages =>
          \A i \in 1..Len(messages[capCase.h].val) :
             messages[capCase.h].val[i].msgId < capCase.msgId
    /\ (Quiet /\ capCase.h \in DOMAIN members) =>
          members[capCase.h].val = capCase.members
\* a dependent key of room h is covered by the room key: the room key
\* exists and the dependent key expires, no later than the room key
Covered(store, h) ==
  h \in DOMAIN store =>
    /\ h \in DOMAIN rooms
    /\ store[h].exp # NoExpire
    /\ store[h].exp <= rooms[h].exp

\* C5: whenever no handler and no task is in flight, a membership set or
\* message log that exists belongs to a room that exists, has an expiry,
\* and expires no later than the room key.
C5_DependentTtl ==
  Quiet => \A h \in RoomHashes : Covered(members, h) /\ Covered(messages, h)
RoomObjectsOf(h) == {o \in RoomObjects : o[2] = h}

\* C6: if from some point on the room key of h is absent, then from some
\* point on no object is stored under rooms/{h}/.
C6_ObjectsEventuallyDeleted ==
  \A h \in RoomHashes :
    <>[](~Exists(rooms, h)) => <>[](RoomObjectsOf(h) = {})
\* C7: with requests one after the other, a createRoom that finds the room
\* key answers ROOM_ALREADY_EXISTS and leaves the keyspace of rooms as it
\* was, it never goes on to the set; a createRoom that answers success
\* found the key absent and stores the record with the requested TTL.
C7_CreateIdempotency ==
  [][/\ (lastRes'.op = "createRoom" /\ lastRes'.code = "ROOM_ALREADY_EXISTS")
          => (Exists(rooms, lastRes'.h) /\ rooms' = rooms)
     /\ \A p \in Slots :
          (pc[p] = "idle" /\ pc'[p] = "cr_set") => ~Exists(rooms, rq'[p].h)
     /\ \A p \in Slots :
          pc[p] = "cr_set" /\ pc'[p] # "cr_set"
            => /\ lastRes' = Res("createRoom", rq[p].h, "OK", rq[p].expiry)
               /\ ~Exists(rooms, rq[p].h)
               /\ Exists(rooms', rq[p].h)
               /\ rooms'[rq[p].h].exp = now + rq[p].expiry * TicksPerSec
    ]_vars

\* a createRoom was refused because of a room that was itself created
\* when an earlier room of the shortest expiry could have gone
C7_Witness ==
  /\ lastRes.op = "createRoom" /\ lastRes.code = "ROOM_ALREADY_EXISTS"
  /\ Exists(rooms, lastRes.h)
  /\ rooms[lastRes.h].val.createdAt >= ShortExpiry * TicksPerSec
\* C8: a burnRoom for an absent room answers ROOM_NOT_FOUND, one for an
\* existing room with another creator_id answers NOT_CREATOR, and in both
\* cases the room record, membership set, message log, file metadata,
\* objects and registry are left as they were; burnRoom goes on to delete
\* only when the room exists and the creator_id is the stored one.
C8_OwnershipGate ==
  [][\A p \in Slots, h \in RoomHashes, u \in Users :
       BurnRoom(p, h, u) =>
         /\ ~Exists(rooms, h) =>
              /\ lastRes' = Res("burnRoom", h, "ROOM_NOT_FOUND", 0)
              /\ pc'[p] = "idle"
              /\ UNCHANGED <<rooms, members, messages, files, objects, roomClients>>
         /\ (Exists(rooms, h) /\ rooms[h].val.creator_id # u) =>
              /\ lastRes' = Res("burnRoom", h, "NOT_CREATOR", 0)
              /\ pc'[p] = "idle"
              /\ UNCHANGED <<rooms, members, messages, files, objects, roomClients>>
         /\ pc'[p] # "idle" =>
              /\ Exists(rooms, h)
              /\ rooms[h].val.creator_id = u
    ]_vars

\* a burnRoom by someone else was refused for a room that holds a file
C8_Witness ==
  /\ lastRes.op = "burnRoom" /\ lastRes.code = "NOT_CREATOR"
  /\ Exists(rooms, lastRes.h)
  /\ FileKeysOf(lastRes.h) # {}
  /\ RoomObjectsOf(lastRes.h) # {}
\* C9: the step on which burnRoom answers success leaves no room key, no
\* membership set, no message log and no file metadata key of the room,
\* sends room_burnt once to every open connection that was registered for
\* the room and to no other, and leaves no registry entry for the room.
C9_BurnPostconditions ==
  [][\A h \in RoomHashes :
       lastRes' = Res("burnRoom", h, "OK", 0) =>
         /\ ~Exists(rooms', h)
         /\ ~Exists(members', h)
         /\ ~Exists(messages', h)
         /\ {k \in DOMAIN files' : k[1] = h} = {}
         /\ sent' = SendAll(ClientsOf(roomClients, h), [type |-> "room_burnt"])
         /\ ~Exists(roomClients', h)
    ]_vars
\* C10: a joinRoom answer to a well-formed code is ROOM_NOT_FOUND,
\* ROOM_EXPIRED or success, never an internal error; the two failures are
\* answered at the end of a cleanupRoomFiles call, and success carries the
\* stored room_salt, expiry_timestamp and createdAt.
C10_JoinOutcomes ==
  [][lastRes'.op = "joinRoom" /\ lastRes'.code # "INVALID_CODE_FORMAT" =>
       /\ lastRes'.code \in {"ROOM_NOT_FOUND", "ROOM_EXPIRED", "OK"}
       /\ lastRes'.code \in {"ROOM_NOT_FOUND", "ROOM_EXPIRED"} =>
            \E p \in Slots : /\ pc[p] \in {"cl_keys", "cl_delobj", "cl_delkeys"}
                             /\ pc'[p] = "idle"
       /\ lastRes'.code = "OK" =>
            /\ Exists(rooms, lastRes'.h)
            /\ lastRes'.body =
                 [room_salt |-> rooms[lastRes'.h].val.room_salt,
                  expiry_timestamp |-> rooms[lastRes'.h].val.expiry_timestamp,
                  createdAt |-> rooms[lastRes'.h].val.createdAt]
    ]_vars
\* a chat frame with a missing field, an iv that is not 12 bytes, an
\* authTag that is not 16 bytes or a ciphertext of no bytes
Malformed(msg) ==
  \/ msg.roomHash = Missing \/ msg.senderId = NoSender \/ msg.hmac = Missing
  \/ msg.ciphertext \in {Missing, 0}
  \/ msg.iv # 12
  \/ msg.authTag # 16
MalformedInputs ==
  {m \in UNION {ChatInputs(h) : h \in RoomHashes} : Malformed(m)}
Rejections == {"INVALID_PAYLOAD", "INVALID_CRYPTO_PARAMETERS"}
SixDigits(code) == Len(code) = 6 /\ \A i \in 1..6 : code[i] \in 0..9
BadCodes == {code \in CodeInputs : ~SixDigits(code)}
Untouched ==
  UNCHANGED <<rooms, members, messages, files, drops, objects, roomCache,
              roomClients, bg, nextMsgId>>

\* C11: a joinRoom whose code is not six digits answers
\* INVALID_CODE_FORMAT on the step that takes it up, with no store key,
\* cache entry or registry entry changed and no frame sent; a malformed
\* chat frame never gets into a handler that goes on to the store and is
\* never answered otherwise than by INVALID_PAYLOAD or
\* INVALID_CRYPTO_PARAMETERS, and a step that answers so changes no store
\* key, cache entry or registry entry, starts no task and sends only the
\* error frame, to one connection.
C11_RejectedBeforeStore ==
  [][/\ \A p \in Slots :
          (pc[p] = "idle" /\ (pc'[p] # "idle" \/ lastRes'.op = "joinRoom")) =>
            \A code \in BadCodes :
              JoinRoom(p, code) =>
                 /\ lastRes'.op = "joinRoom" /\ lastRes'.code = "INVALID_CODE_FORMAT"
                 /\ pc'[p] = "idle"
                 /\ Untouched
                 /\ sent' = NoSent
     /\ \A w \in WsSlots :
          (ws[w].pc = "idle" /\ ws'[w].pc # "idle") => ~Malformed(ws'[w].msg)
     /\ (lastRes'.op = "chat" /\ lastRes'.code \in Rejections) =>
          /\ ws' = ws
          /\ Untouched
          /\ \E c \in Conns : sent' = SendAll({c}, ErrorFrame(lastRes'.code))
     /\ (lastRes'.op = "chat" /\ lastRes'.code \notin Rejections) =>
          \A w \in WsSlots, c \in Conns, msg \in MalformedInputs :
             ws[w].pc = "idle" => ~(Chat(w, c, msg) \/ CachedChat(w, c, msg))
    ]_vars

\* a malformed chat frame was refused while the room held connections and
\* a message log
C11_Witness ==
  /\ lastRes.op = "chat" /\ lastRes.code = "INVALID_CRYPTO_PARAMETERS"
  /\ GoodHash \in DOMAIN roomClients
  /\ GoodHash \in DOMAIN messages
  /\ Exists(rooms, GoodHash)
\* the entries at indices page*limit .. min(N, (page+1)*limit) - 1, counted
\* from 0, of a newest-first list of N entries, oldest of them first
PageOf(list, page, limit) ==
  LET N  == Len(list)
      lo == page * limit
      hi == (IF N < (page + 1) * limit THEN N ELSE (page + 1) * limit) - 1
  IN [i \in 1..(IF hi >= lo THEN hi - lo + 1 ELSE 0) |-> list[hi + 2 - i]]
Log120 == [i \in 1..120 |-> 121 - i]
LogOf(h) == IF h \in DOMAIN messages THEN messages[h].val ELSE <<>>

C13_MetadataRoundTrip ==
  [][\A p \in Slots :
       /\ (pc[p] = "ui_set" /\ pc'[p] = "idle") =>
            LET stored == files'[<<rq[p].h, rq[p].fileId>>].val
            IN /\ stored.fileName = rq[p].f.fileName
               /\ DecimalString(stored.fileSize) = rq[p].f.fileSize
               /\ stored.iv = rq[p].f.iv
               /\ stored.authTag = rq[p].f.authTag
       /\ \A k \in DOMAIN files \cap DOMAIN files' : files'[k].val = files[k].val
       /\ (pc[p] = "df_s3get" /\ pc'[p] = "idle"
              /\ rq[p].metadata.s3Key \in objects) =>
            /\ lastRes'.code = "OK"
            /\ lastRes'.body = [fileSize |-> DecimalString(rq[p].metadata.fileSize),
                                iv |-> rq[p].metadata.iv,
                                authTag |-> rq[p].metadata.authTag,
                                fileName |-> rq[p].metadata.fileName]
    ]_vars
C15_PingPong ==
  [][\A c \in Conns :
       TextFrame(c, "ping") =>
         /\ sent' = SendAll({c}, PongFrame)
         /\ Untouched
         /\ ws' = ws
    ]_vars
EventTypes == {"chat", "file", "delete_message"}

\* C16: on the step that broadcasts an accepted chat, file or
\* delete_message event, every open connection registered for the room
\* other than the one the event came in on is sent one copy, and the
\* connection the event came in on (the one of the handler in flight, the
\* one acknowledged) is sent no copy of an event on any step.
C16_BroadcastToOthers ==
  [][\A x \in Conns :
       LET sender == \/ \E w \in WsSlots : ws[w].pc # "idle" /\ ws[w].c = x
                     \/ \E w \in WsSlots : ws'[w].pc # "idle" /\ ws'[w].c = x
                     \/ \E i \in 1..Len(sent'[x]) : sent'[x][i].type = "ack"
           copies == {i \in 1..Len(sent'[x]) : sent'[x][i].type \in EventTypes}
           broadcasting ==
              \/ /\ lastRes'.op \in EventTypes /\ lastRes'.code = "OK"
                 /\ \A w \in WsSlots : ws[w].pc \notin {"f_ttl", "f_expire"}
              \/ \E w \in WsSlots : ws[w].pc = "idle" /\ ws'[w].pc = "f_lpush"
       IN /\ sender => copies = {}
          /\ (/\ broadcasting /\ ~sender /\ readyState[x] = "open"
              /\ \E h \in RoomHashes : x \in ClientsOf(roomClients', h))
               => Cardinality(copies) = 1
    ]_vars
\* the entries of the log of h with the msgId and senderId of msg
Matches(store, h, msg) ==
  {j \in 1..(IF h \in DOMAIN store THEN Len(store[h].val) ELSE 0) :
     /\ store[h].val[j].msgId = msg.messageId
     /\ store[h].val[j].senderId = msg.senderId}

\* C17: a delete_message that gets past validation and the room check and
\* matches no entry of the log is answered MESSAGE_NOT_FOUND, with no log
\* changed; and a step that sends a delete_message event to a connection
\* leaves the matching entry in the log marked deleted.
C17_DeleteNeedsEntry ==
  [][/\ (/\ lastRes'.op = "delete_message"
         /\ lastRes'.code \notin {"INVALID_PAYLOAD", "ROOM_INVALID", "SERVER_ERROR"}
         /\ Matches(messages, lastRes'.h, lastRes'.body) = {})
          => /\ lastRes'.code = "MESSAGE_NOT_FOUND"
             /\ messages' = messages
     /\ \A x \in Conns : \A i \in 1..Len(sent'[x]) :
          sent'[x][i].type = "delete_message" =>
            \E h \in RoomHashes : \E j \in Matches(messages', h, sent'[x][i]) :
               messages'[h].val[j].deleted
    ]_vars
\* the gate of a room file upload: the room exists, the time is not past
\* its expiry_timestamp, and the HMAC presented is the one of the message
\* data under the key derived from the stored code and salt
PassesGate(h, f, hmac) ==
  /\ Exists(rooms, h)
  /\ now <= rooms[h].val.expiry_timestamp
  /\ hmac = HmacSha256(Pbkdf2(rooms[h].val.room_code, rooms[h].val.room_salt),
                       <<f.file, f.iv, f.authTag>>)

Stage(drop) == IF drop.downloaded THEN 2 ELSE IF drop.fileId # NoFile THEN 1 ELSE 0

\* C19: a session that stays stored keeps its state or moves one state on,
\* Created to FileUploaded to Downloaded, never back; an uploadFileDrop
\* goes on to store the file exactly when the session exists, is not
\* expired and has no file; and one that finds a file attached answers
\* FILE_ALREADY_UPLOADED and leaves the sessions and the Object Store as
\* they were.
C19_DropStateMachine ==
  [][/\ \A h \in DOMAIN drops \cap DOMAIN drops' :
          \/ Stage(drops'[h].val) = Stage(drops[h].val)
          \/ Stage(drops'[h].val) = Stage(drops[h].val) + 1
     /\ \A p \in Slots, h \in DropHashes, f \in FileInputs :
          UploadFileDrop(p, h, f) =>
            /\ (pc'[p] = "ufd_put") <=>
                 /\ h \in DOMAIN drops
                 /\ now <= drops[h].val.expiryTimestamp
                 /\ drops[h].val.fileId = NoFile
            /\ (/\ h \in DOMAIN drops
                /\ now <= drops[h].val.expiryTimestamp
                /\ drops[h].val.fileId # NoFile) =>
                 /\ lastRes' = Res("upload", h, "FILE_ALREADY_UPLOADED", 0)
                 /\ UNCHANGED <<drops, objects>>
     /\ \A p \in Slots : (pc[p] # "ufd_put" /\ pc'[p] = "ufd_put") => pc[p] = "idle"
     /\ \A p \in Slots : (pc[p] # "ufd_set" /\ pc'[p] = "ufd_set") => pc[p] = "ufd_put"
     /\ (lastRes'.op = "upload" /\ lastRes'.code = "OK")
          => \E p \in Slots : pc[p] = "ufd_set"
    ]_vars

\* C20: validateDropCode answers DROP_NOT_FOUND without the session, else
\* DROP_EXPIRED past its expiryTimestamp, else FILE_ALREADY_DOWNLOADED when
\* it is marked downloaded, else NO_FILE_UPLOADED_YET without a file, and
\* else, and only then, success with the stored file fields and the time
\* remaining in whole seconds, rounded up; it changes neither the sessions
\* nor the Object Store.
C20_Validate ==
  [][\A p \in Slots, h \in DropHashes :
       ValidateDropCode(p, h) =>
         /\ lastRes'.op = "validate" /\ lastRes'.h = h
         /\ lastRes'.code =
              (IF h \notin DOMAIN drops THEN "DROP_NOT_FOUND"
               ELSE IF now > drops[h].val.expiryTimestamp THEN "DROP_EXPIRED"
               ELSE IF drops[h].val.downloaded THEN "FILE_ALREADY_DOWNLOADED"
               ELSE IF drops[h].val.fileId = NoFile THEN "NO_FILE_UPLOADED_YET"
               ELSE "OK")
         /\ lastRes'.code = "OK" =>
              /\ lastRes'.body.fileId = drops[h].val.fileId
              /\ lastRes'.body.fileName = drops[h].val.fileName
              /\ lastRes'.body.fileSize = drops[h].val.fileSize
              /\ lastRes'.body.iv = drops[h].val.iv
              /\ lastRes'.body.authTag = drops[h].val.authTag
              /\ (lastRes'.body.timeRemaining - 1) * TicksPerSec
                    < drops[h].val.expiryTimestamp - now
              /\ drops[h].val.expiryTimestamp - now
                    <= lastRes'.body.timeRemaining * TicksPerSec
         /\ lastRes'.code # "OK" => lastRes'.body = 0
         /\ UNCHANGED <<drops, objects>>
         /\ pc'[p] = "idle"
    ]_vars

\* validate answered DROP_EXPIRED for a stored session that is past its
\* expiryTimestamp and marked downloaded
C20_Witness ==
  /\ lastRes.op = "validate" /\ lastRes.code = "DROP_EXPIRED"
  /\ lastRes.h \in DOMAIN drops
  /\ drops[lastRes.h].val.downloaded
\* ------------------------------------------------------------------ C21
\* the TTLs the specification allows: the presets 10m, 1h, 24h and 60 * N
\* seconds for a minute count 1 <= N <= 2880
AllowedSeconds(secs) ==
  \/ secs \in {10 * 60, 60 * 60, 24 * 60 * 60}
  \/ secs % 60 = 0 /\ secs \div 60 >= 1 /\ secs \div 60 <= 2880
\* the durations of CreateDurations written as a preset or as "<N>m", and
\* the number of seconds each asks for
Wanted ==
  (D10m :> 600) @@ (D20m :> 1200) @@ (D1h :> 3600) @@ (D24h :> 86400)
  @@ (<<0, 109>> :> 0) @@ (<<2, 8, 8, 0, 109>> :> 172800)
  @@ (<<2, 8, 8, 1, 109>> :> 172860)
FileFields == {"fileId", "fileName", "fileSize", "iv", "authTag"}

\* C21: createFileDrop answers DROP_ALREADY_EXISTS for a hash whose session
\* exists (given a duration it accepts) and leaves the session as it was;
\* the session it stores otherwise has every file field null, no object
\* key, downloaded = false and a TTL of the seconds the duration resolves
\* to, which are a preset or 60 * N with 1 <= N <= 2880 and, for a
\* duration written as a preset or "<N>m", the seconds it asks for.
C21_Create ==
  [][\A p \in Slots, h \in DropHashes :
       /\ lastRes'.op = "create" /\ lastRes'.h = h /\ h \in DOMAIN drops =>
            /\ drops' = drops
            /\ lastRes'.code \in {"DROP_ALREADY_EXISTS", "INVALID_DURATION"}
            /\ lastRes'.code = "INVALID_DURATION" =>
                 \A d \in CreateDurations :
                   CreateFileDrop(p, h, d) =>
                     \/ d \notin DOMAIN Wanted
                     \/ ~AllowedSeconds(Wanted[d])
                     \/ deployed.drop = "scan" /\ d \notin {D10m, D1h, D24h}
       /\ lastRes'.op = "create" /\ lastRes'.code # "OK" => drops' = drops
       /\ CreateFileDropSet(p) /\ rq[p].h = h =>
            LET d == lastRes'.body.duration
                secs == ResolveSeconds(deployed.drop, d)
            IN /\ lastRes'.code = "OK"
               /\ h \in DOMAIN drops'
               /\ \A f \in FileFields : drops'[h].val[f] = NoFile
               /\ drops'[h].val.s3Key = NoKey
               /\ drops'[h].val.downloaded = FALSE
               /\ AllowedSeconds(secs)
               /\ d \in DOMAIN Wanted => secs = Wanted[d]
               /\ drops'[h].exp = now + (secs \div SecPerUnit) * TicksPerSec
               /\ \A k \in DOMAIN drops \ {h} : drops'[k] = drops[k]
    ]_vars
\* a session stored for the longest minute count has had its file uploaded
\* and a later create for its hash was refused
C21_Witness ==
  /\ lastRes.op = "create" /\ lastRes.code = "DROP_ALREADY_EXISTS"
  /\ \E h \in DOMAIN drops :
       /\ drops[h].val.fileId # NoFile
       /\ drops[h].val.expiryTimestamp >= 288 * TicksPerSec
\* ------------------------------------------------------------------ C22
\* C22: the rewrite of downloadFileDrop is a plain overwrite: whatever the
\* session stored at that moment says (also downloaded = true, written by
\* another download in the meantime), the step stores the session the
\* request read with downloaded = true and starts the stream; so two
\* downloads that both read downloaded = false are both streamed the file.
C22_PlainOverwrite ==
  [][\A p \in Slots :
       DownloadFileDropSet(p) /\ rq[p].ttl > 0 =>
         /\ lastRes'.code = "STREAMING"
         /\ pc'[p] = "dfd_stream"
         /\ drops'[rq[p].h].val = [rq[p].drop EXCEPT !.downloaded = TRUE]
    ]_vars
\* two downloads of the same drop and file have both been streamed to the end
C22_Witness ==
  \E p, q \in Slots :
    /\ p # q
    /\ pc[p] = "dfd_del" /\ pc[q] = "dfd_del"
    /\ rq[p].h = rq[q].h /\ rq[p].drop.fileId = rq[q].drop.fileId
    /\ rq[p].h \in DOMAIN drops /\ drops[rq[p].h].val.downloaded
\* ------------------------------------------------------------------ C23
ListOf(store, h) == IF h \in DOMAIN store THEN store[h].val ELSE <<>>
\* between two logs: the same length, and every entry as it was except
\* that the entry with the message id and sender of target may have
\* deleted = true
TombstoneOnly(target, old, new) ==
  /\ Len(new) = Len(old)
  /\ \A j \in 1..Len(old) :
       \/ new[j] = old[j]
       \/ /\ old[j].msgId = target.msgId /\ old[j].senderId = target.senderId
          /\ new[j] = [old[j] EXCEPT !.deleted = TRUE]
\* C23: the in-place write of a deletion, in either controller, changes
\* only the log entry with the message id and sender of the deletion, by
\* setting deleted = true on it; every other entry keeps its content and
\* position, also when a message was appended since the deletion's scan.
C23_TombstoneInPlace ==
  [][/\ \A w \in WsSlots :
          DeleteLset(w) =>
            TombstoneOnly(ws[w].msgData, ListOf(messages, ws[w].msg.roomHash),
                          ListOf(messages', ws[w].msg.roomHash))
     /\ \A t \in bg :
          t.kind = "tombstone" /\ BgLset(t) =>
            TombstoneOnly(t.msgData, ListOf(messages, t.h), ListOf(messages', t.h))
    ]_vars
\* ------------------------------------------------------------------ C24
\* C24: a connection whose close handler has run is in no room's set of
\* the Connection Registry, also after a handler of it that was waiting
\* for the store at the close has resumed, and no room of the registry
\* has an empty set.
C24_ClosedIsUnregistered ==
  /\ \A c \in Conns :
       readyState[c] = "closed" => \A h \in DOMAIN roomClients : c \notin roomClients[h]
  /\ \A h \in DOMAIN roomClients : roomClients[h] # {}
\* ------------------------------------------------------------------ C25
\* C25: the cap test of a chat message whose sender id was in the
\* membership set already (its set-add inserted nothing) removes nothing
\* from the set and does not answer ROOM_FULL, whatever other handlers
\* are between their set-add and their own cap test.
C25_RollbackOwnInsert ==
  [][\A w \in WsSlots :
       ChatCapCheck(w) /\ ~ws[w].isNewMember =>
         /\ members' = members
         /\ lastRes'.code # "ROOM_FULL"
    ]_vars
\* ------------------------------------------------------------------ C26
\* a chat handler for room h is between its set-add and its cap test
CapPending(h) ==
  \E w \in WsSlots :
    ws[w].pc \in {"scard", "capcheck"} /\ ws[w].msg.roomHash = h
\* C26: whenever no chat handler for a room is between its set-add and
\* its cap test and rollback, the room's membership set holds at most 2
\* sender ids for a direct room and at most 20 for a group room.
C26_CapWhenSettled ==
  \A h \in DOMAIN rooms \cap DOMAIN members :
    ~CapPending(h) =>
      Cardinality(members[h].val) <= MaxMembers(rooms[h].val.is_group)
\* ------------------------------------------------------------------ C27
\* C27: no step changes the record or the expiry of a room key that
\* exists before and after it, and a createRoom that answers success has
\* found no record under its hash to replace, so that of overlapping
\* creates for one hash at most one succeeds.
C27_NeverOverwritten ==
  [][/\ \A h \in DOMAIN rooms \cap DOMAIN rooms' : rooms'[h] = rooms[h]
     /\ \A p \in Slots : CreateRoomSet(p) => rq[p].h \notin DOMAIN rooms
    ]_vars
\* ------------------------------------------------------------------ C28
CacheOps == {"join_room", "chat", "file", "delete_message"}
\* the Room Cache holds an entry for h populated less than its time to
\* live ago
FreshEntry(h) ==
  /\ h \in DOMAIN roomCache
  /\ now < roomCache[h].expiresAt
  /\ roomCache[h].expiresAt <= now + CacheTicks
\* C28: a join_room, chat, file or delete_message for a room whose record
\* is absent from the store is accepted only on a cache entry populated
\* less than the cache's time to live (5 seconds) earlier; without such
\* an entry the handler reads the store, finds nothing, answers
\* ROOM_INVALID and registers no connection.  (Absent is what the
\* handler's own read of the store sees.)
C28_CacheStaleness ==
  [][\A w \in WsSlots :
       /\ AllWsIdle /\ lastRes'.op \in CacheOps /\ lastRes'.code = "OK"
            /\ lastRes'.h \notin DOMAIN rooms =>
              FreshEntry(lastRes'.h)
       /\ ws[w].pc = "idle" /\ ws'[w].pc \in {"cget", "ceget"} =>
            /\ ~FreshEntry(ws'[w].msg.roomHash)
            /\ ws'[w].found = (ws'[w].msg.roomHash \in DOMAIN rooms)
            /\ roomClients' = roomClients
            /\ sent' = NoSent
       /\ ws[w].pc \in {"cget", "ceget"} /\ ws'[w].pc = "idle" /\ ~ws[w].found =>
            /\ lastRes'.code = "ROOM_INVALID"
            /\ roomClients' = roomClients
            /\ roomCache' = roomCache
    ]_vars
\* after a chat message was accepted, and the cache's time to live has
\* passed, a message for the room, which is gone, was refused
C28_Witness ==
  /\ lastRes.op \in CacheOps /\ lastRes.code = "ROOM_INVALID"
  /\ lastRes.h \notin DOMAIN rooms
  /\ nextMsgId > 1
  /\ now >= CacheTicks
\* ------------------------------------------------------------------ C29
\* the step appends an entry to the log of a room
LogAppend ==
  \E h \in RoomHashes : Len(ListOf(messages', h)) > Len(ListOf(messages, h))
\* the step acknowledges the sender of a chat or file message
MessageAcked ==
  /\ lastRes'.op \in {"chat", "file"} /\ lastRes'.code = "OK"
  /\ lastRes' # lastRes \/ nextMsgId' # nextMsgId
\* the message acknowledged in the step went to the open connections of
\* its room: in this step, or when the handler that ends here began
WasBroadcast ==
  \/ \E c \in Conns :
       \A x \in ClientsOf(roomClients', lastRes'.h) \ {c} :
         readyState[x] = "open" => sent'[x] # <<>>
  \/ \E w \in WsSlots : ws[w].pc \in {"f_ttl", "f_expire"} /\ ws'[w].pc = "idle"
\* C29: the acknowledgement of an accepted chat or file message does not
\* wait for the append to the log (the log grows no earlier than in the
\* step that acknowledges the sender), and a message that is acknowledged
\* was broadcast to the open connections of its room.
C29_AckBeforeLog ==
  [][/\ LogAppend => MessageAcked
     /\ MessageAcked => WasBroadcast
    ]_vars
\* ------------------------------------------------------------------ C30
\* the positions of a downloadFileDrop after its gate
DownloadPcs == {"dfd_s3get", "dfd_set", "dfd_stream", "dfd_del"}
\* C30: downloadFileDrop starts to stream only in the step that has
\* rewritten the session with downloaded = true, and nothing of the file
\* is delivered in that step; it removes the object only once the stream
\* has finished, and changes the session at no other point but the
\* rewrite and the stream's error callback; a request whose file id
\* differs from the file id of a live session that was not downloaded is
\* answered 403 FILE_ID_MISMATCH and changes neither the session nor the
\* object.
C30_Download ==
  [][\A p \in Slots :
       /\ pc[p] # "dfd_stream" /\ pc'[p] = "dfd_stream" =>
            /\ pc[p] = "dfd_set"
            /\ rq[p].h \in DOMAIN drops' /\ drops'[rq[p].h].val.downloaded
            /\ delivered' = delivered /\ objects' = objects
       /\ pc[p] \in DownloadPcs /\ pc'[p] # pc[p] /\ objects' # objects =>
            /\ pc[p] = "dfd_del"
            /\ rq[p].h \in everDelivered
            /\ objects' = objects \ {rq[p].drop.s3Key}
       /\ pc[p] \in DownloadPcs /\ pc'[p] # pc[p] /\ drops' # drops =>
            pc[p] = "dfd_set" \/ (pc[p] = "dfd_stream" /\ lastRes'.code = "ERROR")
       /\ pc[p] = "idle" /\ (lastRes'.op = "download" \/ pc'[p] = "dfd_s3get") =>
            \A h \in DropHashes, fileId \in 1..MaxFileId :
              /\ DownloadFileDrop(p, h, fileId)
              /\ h \in DOMAIN drops
              /\ ~DropExpired(drops[h].val, now) /\ ~drops[h].val.downloaded
              /\ drops[h].val.fileId # fileId
              => /\ lastRes'.code = "FILE_ID_MISMATCH"
                 /\ DownloadStatus(lastRes'.code) = 403
                 /\ drops' = drops /\ objects' = objects
                 /\ pc'[p] = "idle"
    ]_vars
\* a download with the wrong file id was refused for a session that has
\* its file, after an earlier file of the drop was streamed to its end
C30_Witness ==
  /\ lastRes.op = "download" /\ lastRes.code = "FILE_ID_MISMATCH"
  /\ lastRes.h \in DOMAIN drops /\ drops[lastRes.h].val.fileId # NoFile
  /\ everDelivered # {}
\* ------------------------------------------------------------------ C31
\* the rewrite of a session by uploadFileDrop, downloadFileDrop or the
\* stream-error callback in slot p
Rewrite(p) ==
  \/ pc[p] = "ufd_set" /\ pc'[p] = "idle" /\ lastRes'.code = "OK"
  \/ pc[p] = "dfd_set" /\ pc'[p] = "dfd_stream"
  \/ pc[p] = "dfd_stream" /\ pc'[p] = "idle" /\ lastRes'.code = "ERROR"
\* the rewrite leaves the store expiry no later than the expiryTimestamp
\* (rounded up to a whole second), or no later than it was
KeepsLife(p) ==
  \/ drops'[rq[p].h].exp < rq[p].drop.expiryTimestamp + TicksPerSec
  \/ rq[p].h \in DOMAIN drops /\ drops'[rq[p].h].exp <= drops[rq[p].h].exp
\* the session rewritten is in the store and has not expired
WritesLive(p) == rq[p].h \in DOMAIN drops /\ ~DropExpired(rq[p].drop, now)
\* C31: no rewrite of a file-drop session by upload, download or the
\* stream-error handler extends its life: the rewrite gives it the TTL
\* that remains at the moment of the write, so the store expiry of
\* drop:{h} is not moved past the session's expiryTimestamp, and a session
\* that has expired is never written back.
C31_NoLifeExtension ==
  [][\A p \in Slots : Rewrite(p) => KeepsLife(p) /\ WritesLive(p)]_vars
\* ------------------------------------------------------------------ C32
\* the positions at which a sweep takes up the next item of its list
SelectPcs == {"rs_exists", "ms_get", "sc_get", "ls_check"}
\* C32: a sweep never aborts early: a step that takes up an item removes
\* that one item from the sweep's list, and no other step of a sweep,
\* whether its check or its delete fails or not, drops an item that is
\* still to be processed.
C32_SweepNeverAborts ==
  [][/\ sw.pc \in SelectPcs => Cardinality(sw.todo \ sw'.todo) <= 1
     /\ sw.pc \notin SelectPcs => sw.todo \subseteq sw'.todo
     /\ sw.pc = "ls_delete" => Cardinality(sw.del \ sw'.del) <= 1
    ]_vars
\* ------------------------------------------------------------------ C33
\* the object keys a file drop can be given
DropKeys == {DropObjectKey(h, f) : h \in DropHashes, f \in 1..MaxFileId}
\* some session in the store names the object
NamedBySession(o) == \E k \in DOMAIN drops : drops[k].val.s3Key = o
\* C33: every object stored under file-drops/ is eventually deleted: if
\* from some point on no session names it (its session has expired, or
\* its file was downloaded and the session is gone), then from some point
\* on it is not in the Object Store, with either sweep strategy.
C33_DropObjectsEventuallyDeleted ==
  \A o \in DropKeys : <>[](~NamedBySession(o)) => <>[](o \notin objects)
\* ------------------------------------------------------------------ C34
\* C34: a step of a background task (log append and TTL refresh,
\* membership insert and TTL sync, tombstone write) sends nothing to any
\* connection, turns no reply into an error, and its failure does not
\* leave the task as an unhandled rejection.
C34_TaskFailuresCaught ==
  [][(\E t \in bg : t \notin bg') =>
       /\ sent' = NoSent
       /\ lastRes'.code \notin {"SERVER_ERROR", "UNHANDLED_REJECTION"}
    ]_vars
\* ------------------------------------------------------------------ C35
\* connection c had traffic since the last tick of the clock: it answered
\* a ping, or the last step replied to a message it sent
TrafficSinceTick(c) ==
  \/ lastRes.op = "pong" /\ lastRes.body = c
  \/ \E i \in 1..Len(sent[c]) : sent[c][i].type \in {"ack", "error"}
\* C35: the server's timeout terminates a connection only after a full
\* idle-timeout window without traffic: it never terminates a connection
\* that has just sent a message or answered a ping.
C35_TimeoutOnlyWhenIdle ==
  [][\A c \in Conns :
       readyState[c] = "open" /\ lastRes'.op = "timeout" /\ lastRes'.body = c =>
         ~TrafficSinceTick(c)
    ]_vars
\* ------------------------------------------------------------------ C36
\* the handler of the frame received first is waiting for the store
\* before and after the step
FirstInFlight == ws[FirstWs].pc # "idle" /\ ws'[FirstWs].pc # "idle"
\* C36: frames of one connection are processed in receipt order: while
\* the handler of the frame received first has not replied, no step
\* replies to or broadcasts the frame received after it.
C36_ReceiptOrder ==
  [][FirstInFlight => lastRes'.op # "chat" /\ sent' = NoSent]_vars
\* ------------------------------------------------------------------ C37
\* the object key the upload in slot p has written or is about to write
UploadKey(p) ==
  IF rq[p].op = "upload" THEN rq[p].drop.s3Key
  ELSE RoomObjectKey(rq[p].h, rq[p].fileId)
\* C37: a room-file or file-drop upload that returns an error leaves no
\* new object in the Object Store: when an upload that has reached the
\* Object Store ends with an error, the object it wrote is not there.
C37_FailedUploadLeavesNothing ==
  [][\A p \in Slots :
       /\ pc[p] \in {"ufd_put", "ufd_set", "ui_put", "ui_set"}
       /\ pc'[p] = "idle"
       /\ lastRes'.code # "OK"
       => UploadKey(p) \notin objects'
    ]_vars
\* ------------------------------------------------------------------ C38
\* a cleanupRoomFiles that has deleted its objects and not yet its keys
CleanupBetween ==
  \/ \E p \in Slots : pc[p] = "cl_delkeys"
  \/ sw.pc = "ms_delkeys"
\* C38: every file-metadata record file:{room_hash}:{file_id} refers to
\* an object that exists in the Object Store, in every state in which no
\* cleanupRoomFiles stands between its DeleteObjects and its del.
C38_RecordHasObject ==
  ~CleanupBetween => \A k \in DOMAIN files : files[k].val.s3Key \in objects
\* ------------------------------------------------------------------ C39
\* the session the upload in slot p read is stored with a file attached:
\* another upload to it has succeeded since p passed the gate
OtherUploadWon(p) ==
  /\ rq[p].h \in DOMAIN drops
  /\ drops[rq[p].h].val.expiryTimestamp = rq[p].drop.expiryTimestamp
  /\ drops[rq[p].h].val.fileId # NoFile
\* C39: of two overlapping uploads to the same file-drop session at most
\* one succeeds: an upload does not end with success on a session to
\* which another upload has attached its file in the meantime, leaving
\* that upload's object without a session that names it.
C39_OneUploadWins ==
  [][\A p \in Slots :
       /\ pc[p] = "ufd_set"
       /\ pc'[p] = "idle"
       /\ lastRes'.code = "OK"
       => ~OtherUploadWon(p)
    ]_vars
\* ------------------------------------------------------------------ C40
\* the positions at which a handler's next command is a SET ... EX ttl
SetPcs == {"ufd_set", "dfd_set", "ui_set"}
\* C40: every TTL the File Object Service and the File-Drop Service pass
\* to set-with-ttl is at least 1 second: no upload or download that has
\* passed the expiry check stands before its write with a TTL of zero or
\* less.
C40_TtlAtLeastOne ==
  \A p \in Slots : pc[p] \in SetPcs => rq[p].ttl >= 1
====
